---- MODULE Spec2Model ----
(***************************************************************************)
(* A model of the cache-gated product workflow of                          *)
(* backend/src/workflow_orchestrator.py (ProductWorkflowOrchestrator), of  *)
(* the scraper factory it selects scrapers with, of the Redis store it     *)
(* reads and writes, of the service entry point                            *)
(* backend/api/services/product_service.py that calls run(url), and of the *)
(* price aggregation of backend/src/price_comparison.py.                   *)
(***************************************************************************)
EXTENDS Integers, Sequences, FiniteSets, TLC

(***************************************************************************)
(* Bounds of the model.                                                    *)
(***************************************************************************)
\* number of run slots; the sequential specification uses slot 1 only
NumRuns == 2
Runs == 1..NumRuns
SeqRuns == {1}
\* the page contents a scrape of one product can return
Contents == { "page-v1", "page-v2" }

(***************************************************************************)
(* Python values.  None is a tagged record so that it can be compared with *)
(* dicts (records) and strings (tagged records).                           *)
(***************************************************************************)
None == [tag |-> "None"]
NoId == "None"

\* a URL is abstracted to the site it names and the product id its path holds
Urls ==
  { [site |-> "amazon.in",   pid |-> "P1"],
    [site |-> "example.com", pid |-> NoId] }

\* ScraperFactory._scrapers, in registry order
Scrapers == << "amazon", "flipkart" >>

ScraperDomain(platform) ==
  IF platform = "amazon" THEN "amazon.in" ELSE "flipkart.com"

\* AmazonScraper/FlipkartScraper.extract_product_id
ExtractProductId(url) == url.pid

\* AmazonScraper/FlipkartScraper.validate_url
ValidateUrl(platform, url) ==
  url.site = ScraperDomain(platform) /\ ExtractProductId(url) # NoId

\* ScraperFactory.is_url_supported
IsUrlSupported(url) ==
  \E i \in 1..Len(Scrapers) : ValidateUrl(Scrapers[i], url)

\* ScraperFactory.get_scraper: the first scraper that validates the URL,
\* "ValueError" when none does
GetScraper(url) ==
  IF IsUrlSupported(url)
  THEN Scrapers[CHOOSE i \in 1..Len(Scrapers) :
                  /\ ValidateUrl(Scrapers[i], url)
                  /\ \A j \in 1..(i-1) : ~ValidateUrl(Scrapers[j], url)]
  ELSE "ValueError"

(***************************************************************************)
(* Scraped items.  scrape_product returns a dict; the Amazon scraper sets  *)
(* both 'asin' and 'product_id', the Flipkart scraper only 'product_id'.   *)
(* 'content' stands for the scraped fields other than the title.           *)
(***************************************************************************)
Titles == { "", "Phone X 128GB Black" }

ScrapeProduct(platform, url, title, content) ==
  IF platform = "amazon"
  THEN [platform |-> "amazon", product_id |-> ExtractProductId(url),
        asin |-> ExtractProductId(url), title |-> title, content |-> content]
  ELSE [platform |-> "flipkart", product_id |-> ExtractProductId(url),
        title |-> title, content |-> content]

\* dict.get(key) with None for a missing key
Get(d, k) == IF k \in DOMAIN d THEN d[k] ELSE None

\* Python strings held in Optional[str] fields are tagged records; 'of' names
\* the product record a narrative was generated from
Str(text, of) == [tag |-> "str", text |-> text, of |-> of]

\* Python truthiness of an Optional[dict] (the dicts of the model are never empty)
TruthyDict(v) == v # None

\* Python truthiness of an Optional[str]
TruthyStr(v) == v # None /\ v.text # ""

(***************************************************************************)
(* json.dumps / json.loads of a product record.  The text is the sequence  *)
(* of key/value pairs in the dict's insertion order; loading rebuilds the  *)
(* dict from the pairs.                                                    *)
(***************************************************************************)
KeyOrder ==
  << "platform", "product_id", "asin", "title", "content",
     "price_comparison", "competitor_prices", "web_search_analysis" >>

\* variant: the dump keeps only the scraped fields of the record's content
JsonDumpsDropsContent(d) ==
  LET ks == SelectSeq(KeyOrder, LAMBDA k : k \in DOMAIN d /\ k # "content")
  IN  [tag |-> "json", pairs |-> [i \in 1..Len(ks) |-> << ks[i], d[ks[i]] >>]]

JsonDumps(d) ==
  LET ks == SelectSeq(KeyOrder, LAMBDA k : k \in DOMAIN d)
  IN  [tag |-> "json", pairs |-> [i \in 1..Len(ks) |-> << ks[i], d[ks[i]] >>]]

JsonLoads(j) ==
  LET keys == { j.pairs[i][1] : i \in 1..Len(j.pairs) }
  IN  [k \in keys |->
         LET i == CHOOSE n \in 1..Len(j.pairs) : j.pairs[n][1] = k
         IN  j.pairs[i][2]]

(***************************************************************************)
(* The Redis store: one data key and one analysis key per product id.      *)
(* Every entry is written with the same TTL (setex ..., 86400, ...), so    *)
(* entries expire in the order they were written; 'order' lists the live   *)
(* keys oldest write first.                                                *)
(***************************************************************************)
ProductIds == { u.pid : u \in { v \in Urls : v.pid # NoId } }

DataKey(pid) == << "product", pid >>
AnalysisKey(pid) == << "product", pid, "analysis" >>
CacheKeys == { DataKey(p) : p \in ProductIds } \cup { AnalysisKey(p) : p \in ProductIds }

\* redis.get: the value, or None for a key that is absent or expired
RedisGet(c, key) == IF key \in CacheKeys THEN c[key] ELSE None

\* variant: a data entry is updated field by field, fields the new record
\* lacks keep their stored value
RedisSetexMerges(c, key, value) ==
  IF c[key] # None /\ value.tag = "json" /\ c[key].tag = "json"
  THEN [c EXCEPT ![key] = JsonDumps(JsonLoads(value) @@ JsonLoads(c[key]))]
  ELSE [c EXCEPT ![key] = value]

\* redis.setex: whole-entry write that renews the key's TTL
RedisSetex(c, key, value) == [c EXCEPT ![key] = value]

Renew(ord, key) == SelectSeq(ord, LAMBDA k : k # key) \o << key >>

(***************************************************************************)
(* SerperPriceComparison (price_comparison.py).  A raw shopping result     *)
(* carries the seller's name, the listing title, a price string, the       *)
(* price the API extracted (0 when it gave none) and a rating.  Prices are *)
(* whole currency units.                                                   *)
(***************************************************************************)
\* the title of the scraped product, and the titles listings carry
ProductTitle == "Phone X 128GB Black"
OtherTitle == "Phone Y 64GB Blue"

\* a price string: a currency mark and the number its digits spell;
\* NoPriceText is a string without digits
PriceText(symbol, amount) == [symbol |-> symbol, amount |-> amount, digits |-> TRUE]
NoPriceText == [symbol |-> "", amount |-> 0, digits |-> FALSE]

RawResult(source, title, price, extracted_price, rating) ==
  [source |-> source, title |-> title, price |-> price,
   extracted_price |-> extracted_price, rating |-> rating, link |-> source,
   malformed |-> FALSE]

\* a result _normalize_result cannot read (it raises inside and returns None)
MalformedResult ==
  [source |-> "", title |-> "", price |-> NoPriceText, extracted_price |-> 0,
   rating |-> 0, link |-> "", malformed |-> TRUE]

\* the platform names _extract_platform_from_source looks for, in test order
KnownPlatforms ==
  << "amazon", "flipkart", "ebay", "walmart", "myntra", "snapdeal", "croma", "tata" >>

\* source.lower()
Lower(source) ==
  CASE source = "Amazon.in" -> "amazon.in"
    [] source = "Amazon"    -> "amazon"
    [] source = "Flipkart"  -> "flipkart"
    [] source = "Croma"     -> "croma"
    [] OTHER                -> source

\* the known platform names that occur in the lower-cased source
Mentions(source) ==
  CASE Lower(source) \in { "amazon.in", "amazon" } -> { "amazon" }
    [] Lower(source) = "flipkart"  -> { "flipkart" }
    [] Lower(source) = "croma"     -> { "croma" }
    [] OTHER                       -> { }

\* _extract_platform_from_source
ExtractPlatformFromSource(source) ==
  IF Mentions(source) = { }
  THEN Lower(source)
  ELSE KnownPlatforms[CHOOSE i \in 1..Len(KnownPlatforms) :
                        /\ KnownPlatforms[i] \in Mentions(source)
                        /\ \A j \in 1..(i-1) : KnownPlatforms[j] \notin Mentions(source)]

\* _parse_currency
ParseCurrency(price_str) ==
  CASE price_str.symbol = "rupee"  -> "INR"
    [] price_str.symbol = "dollar" -> "USD"
    [] price_str.symbol = "euro"   -> "EUR"
    [] price_str.symbol = "pound"  -> "GBP"
    [] OTHER                       -> "INR"

\* a normalized result
Offer(title, seller, platform, price, currency, rating, url) ==
  [title |-> title, price |-> price, currency |-> currency,
   url |-> url, seller |-> seller, platform |-> platform, rating |-> rating,
   in_stock |-> TRUE]

\* _normalize_result: the extracted price, else the number in the price
\* string, else 0; None for a result that cannot be read
NormalizeResult(raw_result) ==
  IF raw_result.malformed THEN None
  ELSE LET extracted_price ==
             IF raw_result.extracted_price # 0 THEN raw_result.extracted_price
             ELSE IF raw_result.price.digits THEN raw_result.price.amount
             ELSE 0
       IN  Offer(raw_result.title, raw_result.source,
                 ExtractPlatformFromSource(raw_result.source), extracted_price,
                 ParseCurrency(raw_result.price), raw_result.rating, raw_result.link)

\* titles of listings: the product's title with other punctuation and in
\* another color, two phones of a known brand that differ in storage, and
\* titles that name no brand, storage, RAM, color or model
PunctuatedTitle == "Phone X (128GB, Black)"
OtherColorTitle == "Phone X 128GB Blue"
BrandTitle == "Apple iPhone 15 Pro 128GB"
BrandOtherStorageTitle == "Apple iPhone 15 Pro 256GB"
PlainTitle == "Wooden Chair"
PlainPunctuatedTitle == "Wooden Chair!"
OtherPlainTitle == "Wooden Table"

ListingTitles ==
  { ProductTitle, OtherTitle, PunctuatedTitle, OtherColorTitle, BrandTitle,
    BrandOtherStorageTitle, PlainTitle, PlainPunctuatedTitle, OtherPlainTitle }

\* _extract_product_attributes for the titles of the model: the first brand
\* and color of the lists the title holds, and the first match of the
\* storage, RAM and model patterns
ExtractProductAttributes(title) ==
  CASE title \in { ProductTitle, PunctuatedTitle } ->
         [storage |-> "128gb", color |-> "black", model |-> "128g"]
    [] title = OtherTitle ->
         [storage |-> "64gb", color |-> "blue", model |-> "64g"]
    [] title = OtherColorTitle ->
         [storage |-> "128gb", color |-> "blue", model |-> "128g"]
    [] title = BrandTitle ->
         [brand |-> "apple", storage |-> "128gb", model |-> "15"]
    [] title = BrandOtherStorageTitle ->
         [brand |-> "apple", storage |-> "256gb", model |-> "15"]
    [] OTHER -> << >>

\* re.sub(r'[^\w\s]', '', title.lower())
NormalizeTitle(title) ==
  CASE title \in { ProductTitle, PunctuatedTitle } -> "phone x 128gb black"
    [] title = OtherTitle -> "phone y 64gb blue"
    [] title = OtherColorTitle -> "phone x 128gb blue"
    [] title = BrandTitle -> "apple iphone 15 pro 128gb"
    [] title = BrandOtherStorageTitle -> "apple iphone 15 pro 256gb"
    [] title \in { PlainTitle, PlainPunctuatedTitle } -> "wooden chair"
    [] title = OtherPlainTitle -> "wooden table"
    [] OTHER -> title

\* len() of a normalized title
Length(t) ==
  CASE t = "phone x 128gb black" -> 19
    [] t = "phone y 64gb blue" -> 17
    [] t = "phone x 128gb blue" -> 18
    [] t = "apple iphone 15 pro 128gb" -> 25
    [] t = "apple iphone 15 pro 256gb" -> 25
    [] t = "wooden chair" -> 12
    [] t = "wooden table" -> 12
    [] OTHER -> 0

\* the sum of the sizes of SequenceMatcher(None, t1, t2).get_matching_blocks()
\* (the matcher is not symmetric in its arguments)
MatchedCharacters(t1, t2) ==
  CASE t1 = "phone x 128gb black" ->
           (CASE t2 = "phone x 128gb black" -> 19
             [] t2 = "phone y 64gb blue" -> 12
             [] t2 = "phone x 128gb blue" -> 16
             [] t2 = "apple iphone 15 pro 128gb" -> 12
             [] t2 = "apple iphone 15 pro 256gb" -> 10
             [] t2 = "wooden chair" -> 2
             [] t2 = "wooden table" -> 5
             [] OTHER -> 0)
    [] t1 = "phone y 64gb blue" ->
           (CASE t2 = "phone x 128gb black" -> 12
             [] t2 = "phone y 64gb blue" -> 17
             [] t2 = "phone x 128gb blue" -> 14
             [] t2 = "apple iphone 15 pro 128gb" -> 9
             [] t2 = "apple iphone 15 pro 256gb" -> 10
             [] t2 = "wooden chair" -> 1
             [] t2 = "wooden table" -> 6
             [] OTHER -> 0)
    [] t1 = "phone x 128gb blue" ->
           (CASE t2 = "phone x 128gb black" -> 16
             [] t2 = "phone y 64gb blue" -> 14
             [] t2 = "phone x 128gb blue" -> 18
             [] t2 = "apple iphone 15 pro 128gb" -> 12
             [] t2 = "apple iphone 15 pro 256gb" -> 10
             [] t2 = "wooden chair" -> 1
             [] t2 = "wooden table" -> 6
             [] OTHER -> 0)
    [] t1 = "apple iphone 15 pro 128gb" ->
           (CASE t2 = "phone x 128gb black" -> 12
             [] t2 = "phone y 64gb blue" -> 9
             [] t2 = "phone x 128gb blue" -> 12
             [] t2 = "apple iphone 15 pro 128gb" -> 25
             [] t2 = "apple iphone 15 pro 256gb" -> 23
             [] t2 = "wooden chair" -> 3
             [] t2 = "wooden table" -> 3
             [] OTHER -> 0)
    [] t1 = "apple iphone 15 pro 256gb" ->
           (CASE t2 = "phone x 128gb black" -> 10
             [] t2 = "phone y 64gb blue" -> 10
             [] t2 = "phone x 128gb blue" -> 10
             [] t2 = "apple iphone 15 pro 128gb" -> 23
             [] t2 = "apple iphone 15 pro 256gb" -> 25
             [] t2 = "wooden chair" -> 3
             [] t2 = "wooden table" -> 3
             [] OTHER -> 0)
    [] t1 = "wooden chair" ->
           (CASE t2 = "phone x 128gb black" -> 4
             [] t2 = "phone y 64gb blue" -> 3
             [] t2 = "phone x 128gb blue" -> 3
             [] t2 = "apple iphone 15 pro 128gb" -> 3
             [] t2 = "apple iphone 15 pro 256gb" -> 3
             [] t2 = "wooden chair" -> 12
             [] t2 = "wooden table" -> 8
             [] OTHER -> 0)
    [] t1 = "wooden table" ->
           (CASE t2 = "phone x 128gb black" -> 5
             [] t2 = "phone y 64gb blue" -> 6
             [] t2 = "phone x 128gb blue" -> 6
             [] t2 = "apple iphone 15 pro 128gb" -> 3
             [] t2 = "apple iphone 15 pro 256gb" -> 3
             [] t2 = "wooden chair" -> 8
             [] t2 = "wooden table" -> 12
             [] OTHER -> 0)
    [] OTHER -> 0

\* SequenceMatcher(None, t1, t2).ratio() of the normalized titles, as the
\* fraction 2*M / T
SequenceSimilarity(title1, title2) ==
  LET t1 == NormalizeTitle(title1)
      t2 == NormalizeTitle(title2)
  IN  [matched |-> 2 * MatchedCharacters(t1, t2), total |-> Length(t1) + Length(t2)]

\* the attributes compared by _calculate_product_similarity
ComparedAttributes == { "brand", "storage", "ram", "model" }

\* _calculate_product_similarity: the attribute matches and the number of
\* attributes either title has, with the sequence similarity; the score is
\* 0.7 * matches / total + 0.3 * ratio
CalculateProductSimilarity(title1, title2) ==
  LET attrs1 == ExtractProductAttributes(title1)
      attrs2 == ExtractProductAttributes(title2)
      present == { k \in ComparedAttributes : k \in DOMAIN attrs1 \/ k \in DOMAIN attrs2 }
      matching == { k \in present : /\ k \in DOMAIN attrs1 /\ k \in DOMAIN attrs2
                                    /\ attrs1[k] = attrs2[k] }
  IN  [attribute_matches |-> Cardinality(matching),
       total_attributes |-> Cardinality(present),
       sequence |-> SequenceSimilarity(title1, title2)]

\* final_similarity of _calculate_product_similarity as an exact fraction:
\* 0.7 * attribute_similarity + 0.3 * sequence_similarity, the attribute
\* similarity being 0 when no compared attribute is present
FinalSimilarity(title1, title2) ==
  LET similarity == CalculateProductSimilarity(title1, title2)
      m == similarity.attribute_matches
      n == similarity.total_attributes
      p == similarity.sequence.matched
      q == similarity.sequence.total
  IN  IF n = 0
      THEN [num |-> 30 * p, den |-> 100 * q]
      ELSE [num |-> 70 * m * q + 30 * p * n, den |-> 100 * n * q]

\* the threshold compare_prices passes, in hundredths
Threshold == 65

\* _is_same_product: similarity >= threshold, with the score's fractions
\* cleared of their denominators
IsSameProduct(original_title, result_title, threshold) ==
  LET similarity == CalculateProductSimilarity(original_title, result_title)
      m == similarity.attribute_matches
      n == similarity.total_attributes
      p == similarity.sequence.matched
      q == similarity.sequence.total
  IN  IF n = 0
      THEN 30 * p >= threshold * q
      ELSE 70 * m * q + 30 * p * n >= threshold * n * q

\* variant: offers of the source platform are kept
KeptAnyPlatform(product_name, source_platform, normalized) ==
  /\ normalized # None
  /\ IsSameProduct(product_name, normalized.title, Threshold)

\* compare_prices, the filter of the normalization loop: the result could be
\* read, is not from the source platform and is the same product
Kept(product_name, source_platform, normalized) ==
  /\ normalized # None
  /\ normalized.platform # source_platform
  /\ IsSameProduct(product_name, normalized.title, Threshold)

\* variant: results without a price count as priced
HasValidPriceOrNone(r) == r.price >= 0

\* compare_prices: the results with a price
HasValidPrice(r) == r.price > 0

RECURSIVE GroupByPlatformInto(_, _)
GroupByPlatformInto(grouped, results) ==
  IF results = << >> THEN grouped
  ELSE LET first == Head(results)
           at == { i \in 1..Len(grouped) : grouped[i].platform = first.platform }
       IN  IF at = { }
           THEN GroupByPlatformInto(
                  Append(grouped, [platform |-> first.platform,
                                   products |-> << first >>]),
                  Tail(results))
           ELSE LET i == CHOOSE j \in at : TRUE
                IN  GroupByPlatformInto(
                      [grouped EXCEPT ![i].products = Append(@, first)],
                      Tail(results))

\* variant: only the results with a price are grouped
GroupPricedByPlatform(results) ==
  GroupByPlatformInto(<< >>, SelectSeq(results, HasValidPrice))

\* group_by_platform: the dict platform -> results, as the sequence of its
\* entries in insertion order
GroupByPlatform(results) == GroupByPlatformInto(<< >>, results)

RECURSIVE GCD(_, _)
GCD(a, b) == IF b = 0 THEN a ELSE GCD(b, a % b)

\* an exact fraction in lowest terms
Rat(num, den) ==
  LET d == GCD(num, den) IN [num |-> num \div d, den |-> den \div d]

RECURSIVE SumPrices(_)
SumPrices(prices) ==
  IF prices = << >> THEN 0 ELSE Head(prices) + SumPrices(Tail(prices))

RECURSIVE InsertNumber(_, _)
InsertNumber(sorted, x) ==
  IF sorted = << >> THEN << x >>
  ELSE IF Head(sorted) <= x
       THEN << Head(sorted) >> \o InsertNumber(Tail(sorted), x)
       ELSE << x >> \o sorted

RECURSIVE SortNumbers(_)
SortNumbers(xs) ==
  IF xs = << >> THEN << >>
  ELSE InsertNumber(SortNumbers(SubSeq(xs, 1, Len(xs) - 1)), xs[Len(xs)])

\* statistics.median
Median(prices) ==
  LET sorted == SortNumbers(prices)
      n == Len(sorted)
  IN  IF n % 2 = 1 THEN Rat(sorted[(n + 1) \div 2], 1)
      ELSE Rat(sorted[n \div 2] + sorted[n \div 2 + 1], 2)

ZeroStats ==
  [min_price |-> 0, max_price |-> 0, avg_price |-> Rat(0, 1),
   median_price |-> Rat(0, 1), total_results |-> 0]

\* calculate_price_stats
CalculatePriceStats(results) ==
  IF results = << >> THEN ZeroStats
  ELSE LET prices == [i \in 1..Len(results) |-> results[i].price]
           sorted == SortNumbers(prices)
       IN  [min_price |-> sorted[1], max_price |-> sorted[Len(sorted)],
            avg_price |-> Rat(SumPrices(prices), Len(prices)),
            median_price |-> Median(prices),
            total_results |-> Len(prices)]

\* variant: ties in price go to the lower rating
DealKeyLeqLowRating(a, b) ==
  \/ a.price < b.price
  \/ a.price = b.price /\ a.rating <= b.rating

\* find_best_deal's sort key (price, -rating): a's key <= b's key
DealKeyLeq(a, b) ==
  \/ a.price < b.price
  \/ a.price = b.price /\ a.rating >= b.rating

RECURSIVE InsertByDealKey(_, _)
InsertByDealKey(sorted, x) ==
  IF sorted = << >> THEN << x >>
  ELSE IF DealKeyLeq(Head(sorted), x)
       THEN << Head(sorted) >> \o InsertByDealKey(Tail(sorted), x)
       ELSE << x >> \o sorted

RECURSIVE SortByDealKey(_)
\* sorted(results, key=...): stable
SortByDealKey(results) ==
  IF results = << >> THEN << >>
  ELSE InsertByDealKey(SortByDealKey(SubSeq(results, 1, Len(results) - 1)),
                       results[Len(results)])

\* round(n / d): to the nearest whole, halves to the even one
RoundDiv(n, d) ==
  LET fl == n \div d
      rem == n % d
  IN  IF 2 * rem > d THEN fl + 1
      ELSE IF 2 * rem = d /\ fl % 2 = 1 THEN fl + 1
      ELSE fl

\* variant: the savings subtraction has its operands swapped
FindBestDealSwapped(results) ==
  IF results = << >> THEN None
  ELSE LET sorted_results == SortByDealKey(results)
           best == sorted_results[1]
           max_price == sorted_results[Len(sorted_results)].price
           savings == best.price - max_price
       IN  [platform |-> best.platform, title |-> best.title,
            price |-> best.price, currency |-> best.currency, url |-> best.url,
            seller |-> best.seller, rating |-> best.rating,
            savings |-> savings,
            savings_percent |->
               IF max_price > 0 THEN RoundDiv(savings * 10000, max_price) ELSE 0]

\* find_best_deal; savings_percent is in hundredths of a percent
FindBestDeal(results) ==
  IF results = << >> THEN None
  ELSE LET sorted_results == SortByDealKey(results)
           best == sorted_results[1]
           max_price == sorted_results[Len(sorted_results)].price
           savings == max_price - best.price
       IN  [platform |-> best.platform, title |-> best.title,
            price |-> best.price, currency |-> best.currency, url |-> best.url,
            seller |-> best.seller, rating |-> best.rating,
            savings |-> savings,
            savings_percent |->
               IF max_price > 0 THEN RoundDiv(savings * 10000, max_price) ELSE 0]

\* variant: the error key of the search response is not looked at
SearchFailedNever(raw_results) == FALSE

\* compare_prices: "error" in raw_results
SearchFailed(raw_results) == "error" \in DOMAIN raw_results

\* compare_prices; raw_results is what search_shopping returned
ComparePrices(product_name, source_platform, raw_results) ==
  IF SearchFailed(raw_results)
  THEN [error |-> raw_results.error, price_comparison |-> << >>,
        price_stats |-> ZeroStats, best_deal |-> None, total_results |-> 0]
  ELSE IF raw_results.shopping = << >>
  THEN [price_comparison |-> << >>, price_stats |-> ZeroStats,
        best_deal |-> None, total_results |-> 0]
  ELSE
    LET shopping_results == raw_results.shopping
        normalized == [i \in 1..Len(shopping_results) |->
                         NormalizeResult(shopping_results[i])]
        normalized_results ==
          SelectSeq(normalized, LAMBDA n : Kept(product_name, source_platform, n))
        valid_price_results == SelectSeq(normalized_results, HasValidPrice)
    IN  [price_comparison |-> GroupByPlatform(normalized_results),
         price_stats |-> CalculatePriceStats(valid_price_results),
         best_deal |-> IF valid_price_results # << >>
                       THEN FindBestDeal(valid_price_results) ELSE None,
         total_results |-> Len(normalized_results)]

\* what search_shopping returns when the search failed
SearchError == [error |-> "search failed", shopping |-> << >>]

\* a search that found offers on two platforms, one offer without a price
SampleSearch ==
  [shopping |->
     << RawResult("Flipkart", ProductTitle, PriceText("rupee", 700), 700, 4),
        RawResult("Flipkart", ProductTitle, NoPriceText, 0, 4),
        RawResult("Croma", ProductTitle, PriceText("dollar", 650), 650, 4) >>]

\* a response that reports an error next to results
ErrorWithResults == [error |-> "search failed", shopping |-> SampleSearch.shopping]

\* compare_prices when the shopping search reports an error
ErrorAggregation == ComparePrices(ProductTitle, "amazon", SearchError)

\* compare_prices for the sample search
SampleAggregation == ComparePrices(ProductTitle, "amazon", SampleSearch)

PriceResults == { ErrorAggregation, SampleAggregation }

(***************************************************************************)
(* Values returned by WebSearchAnalyzer.analyze_product.                   *)
(***************************************************************************)
SampleInsights ==
  [external_reviews |-> << "review-1" >>, reddit_discussions |-> << >>,
   news_articles |-> << >>, key_findings |-> << "finding-1" >>,
   red_flags |-> << >>, total_sources |-> 1]

WebResults == { SampleInsights }

(***************************************************************************)
(* WebSearchAnalyzer (backend/src/web_search.py).  A search result is a    *)
(* dict with the keys title, url, snippet, date and source.  A URL is      *)
(* abstracted to its host and a path; a finding's title, snippet and path  *)
(* are the pair << category, position >> that identifies it.               *)
(***************************************************************************)
\* the result keys of the five search pipelines, in the order analyze_product
\* concatenates them
Categories ==
  << "external_reviews", "comparison_articles", "issue_discussions",
     "reddit_discussions", "news_articles" >>

CategorySet == { Categories[i] : i \in 1..Len(Categories) }

\* the search type each pipeline is submitted with
SearchType(category) ==
  CASE category = "external_reviews"    -> "reviews"
    [] category = "comparison_articles" -> "comparisons"
    [] category = "issue_discussions"   -> "issues"
    [] category = "reddit_discussions"  -> "reddit"
    [] category = "news_articles"       -> "news"

\* the url a dict without the key 'url' yields: result.get('url', '')
EmptyUrl == [host |-> "", path |-> << >>]

\* needle in url, for the hosts of the model
UrlMentions(url, needle) ==
  needle \in
    CASE url.host = "www.youtube.com" -> { "youtube.com" }
      [] url.host = "youtu.be"        -> { "youtu.be" }
      [] url.host = "www.amazon.in"   -> { "amazon.in" }
      [] url.host = "www.reddit.com"  -> { "reddit.com" }
      [] OTHER                        -> { }

\* a result as utils.search.search returns it
SearchResult(category, i, host) ==
  [title |-> << category, i >>, url |-> [host |-> host, path |-> << category, i >>],
   snippet |-> << category, i >>, date |-> "", source |-> host]

\* _is_source_platform_url
IsSourcePlatformUrl(url, source_platform) ==
  IF source_platform = "" THEN FALSE
  ELSE LET platform_lower == Lower(source_platform)
       IN  CASE platform_lower = "amazon" ->
                  UrlMentions(url, "amazon.in") \/ UrlMentions(url, "amazon.com")
             [] platform_lower = "flipkart" -> UrlMentions(url, "flipkart.com")
             [] platform_lower = "ebay" ->
                  UrlMentions(url, "ebay.in") \/ UrlMentions(url, "ebay.com")
             [] platform_lower = "walmart" -> UrlMentions(url, "walmart.com")
             [] platform_lower = "myntra" -> UrlMentions(url, "myntra.com")
             [] platform_lower = "snapdeal" -> UrlMentions(url, "snapdeal.com")
             [] OTHER -> FALSE

\* the dict _filter_and_format appends: 'url' is renamed to 'link'
Formatted(item) ==
  [title |-> item.title, snippet |-> item.snippet, link |-> item.url,
   source |-> item.source, date |-> item.date]

\* _filter_and_format
FilterAndFormat(results, source_platform) ==
  LET kept == SelectSeq(results,
                LAMBDA r : ~(source_platform # ""
                             /\ IsSourcePlatformUrl(r.url, source_platform)))
  IN  [i \in 1..Len(kept) |-> Formatted(kept[i])]

\* _search_and_process; results is what search(query) returned
SearchAndProcess(results, search_type, source_platform) ==
  LET reddit_only ==
        IF search_type = "reddit"
        THEN SelectSeq(results, LAMBDA r : UrlMentions(r.url, "reddit.com"))
        ELSE results
  IN  FilterAndFormat(reddit_only, source_platform)

\* analyze_product: the five lists concatenated
AllResults(found) ==
  found[Categories[1]] \o found[Categories[2]] \o found[Categories[3]]
    \o found[Categories[4]] \o found[Categories[5]]

\* result.get('url', '')
UrlOf(item) == IF "url" \in DOMAIN item THEN item.url ELSE EmptyUrl

\* _extract_video_reviews
ExtractVideoReviews(results) ==
  LET videos == SelectSeq(results,
                  LAMBDA r : \/ UrlMentions(UrlOf(r), "youtube.com")
                             \/ UrlMentions(UrlOf(r), "youtu.be"))
  IN  [i \in 1..Len(videos) |->
         [title |-> videos[i].title, url |-> UrlOf(videos[i]),
          channel |-> videos[i].source, snippet |-> videos[i].snippet]]

(***************************************************************************)
(* The generative layer.  model.invoke(prompt) raises or returns a text.   *)
(* The text of a filter response is a sequence of tokens: words and        *)
(* numbers (the maximal digit runs re.findall(r'\d+') returns).            *)
(***************************************************************************)
Word(w) == [number |-> FALSE, word |-> w, value |-> 0]
Number(n) == [number |-> TRUE, word |-> "", value |-> n]

\* the call raised (no text is returned) / the call returned a text
Raised == [raised |-> TRUE, text |-> << >>]
Responded(text) == [raised |-> FALSE, text |-> text]

\* str.upper() of a word
Upper(word) ==
  CASE word \in { "NONE", "None", "none" } -> "NONE"
    [] word = "relevant" -> "RELEVANT"
    [] word = "all" -> "ALL"
    [] OTHER -> word

\* "NONE" in response.content.strip().upper()
ContainsNone(text) ==
  \E i \in 1..Len(text) : ~text[i].number /\ Upper(text[i].word) = "NONE"

\* set(int(n) for n in re.findall(r'\d+', result_text))
RelevantIndices(text) ==
  { text[i].value : i \in { j \in 1..Len(text) : text[j].number } }

\* variant: the numbers of the response are taken as 0-based positions
KeepRelevantZeroBased(results, relevant_indices) ==
  LET indexed == [i \in 1..Len(results) |-> [i |-> i - 1, result |-> results[i]]]
      kept == SelectSeq(indexed, LAMBDA e : e.i \in relevant_indices)
  IN  [k \in 1..Len(kept) |-> kept[k].result]

\* [result for i, result in enumerate(results, 1) if i in relevant_indices]
KeepRelevant(results, relevant_indices) ==
  LET indexed == [i \in 1..Len(results) |-> [i |-> i, result |-> results[i]]]
      kept == SelectSeq(indexed, LAMBDA e : e.i \in relevant_indices)
  IN  [k \in 1..Len(kept) |-> kept[k].result]

\* variant: the none signal keeps the whole list
FilterIrrelevantContentNoneKeepsAll(results, outcome) ==
  IF results = << >> THEN << >>
  ELSE IF outcome.raised THEN results
  ELSE IF ContainsNone(outcome.text) THEN results
  ELSE KeepRelevant(results, RelevantIndices(outcome.text))

\* variant: a failed filter call drops the category's findings
FilterIrrelevantContentFailClosed(results, outcome) ==
  IF results = << >> THEN << >>
  ELSE IF outcome.raised THEN << >>
  ELSE IF ContainsNone(outcome.text) THEN << >>
  ELSE KeepRelevant(results, RelevantIndices(outcome.text))

\* _filter_irrelevant_content; outcome is what model.invoke did
FilterIrrelevantContent(results, outcome) ==
  IF results = << >> THEN << >>
  ELSE IF outcome.raised THEN results
  ELSE IF ContainsNone(outcome.text) THEN << >>
  ELSE KeepRelevant(results, RelevantIndices(outcome.text))

\* variant: the model is asked about an empty list too
InvokesAlways(results) == TRUE

\* the model is invoked: an empty list returns before the prompt is built
Invokes(results) == results # << >>

\* search_results[:n]
Truncate(search_results, n) ==
  SubSeq(search_results, 1, IF Len(search_results) < n THEN Len(search_results) ELSE n)

\* number of results put into the prompts of summarize_with_llm,
\* detect_red_flags and _analyze_sentiment
KeyFindingsCap == 20
RedFlagsCap == 20
SentimentCap == 15

\* the results each synthesis operation lists in its prompt
KeyFindingsContext(search_results) == Truncate(search_results, KeyFindingsCap)
RedFlagsContext(search_results) == Truncate(search_results, RedFlagsCap)
SentimentContext(search_results) == Truncate(search_results, SentimentCap)

\* a line of a key-findings response: its numbering or bullet ("" when it
\* has none) and the text left when the marker is stripped
Line(marker, body) == [marker |-> marker, body |-> body]

\* summarize_with_llm
SummarizeWithLlm(search_results, outcome) ==
  IF search_results = << >> THEN << "No external information found" >>
  ELSE IF outcome.raised THEN << "Error generating summary" >>
  ELSE LET lines == SelectSeq(outcome.text,
                      LAMBDA l : l.marker # "" /\ l.body # "")
           findings == [i \in 1..Len(lines) |-> lines[i].body]
       IN  IF findings # << >> THEN findings
           ELSE << "Analysis completed but no specific findings extracted" >>

\* a red-flags response: whether it holds the phrase "no major red flags" or
\* "no significant red flags", and its lines; a line holds a warning mark or
\* word or not, and 'flag' is the line without the mark
FlagLine(warning, flag) == [warning |-> warning, flag |-> flag]
FlagsText(no_flags, lines) == [no_flags |-> no_flags, lines |-> lines]

\* flag.lower().startswith('no')
StartsWithNo(flag) == flag \in { "No warning signs found" }

\* detect_red_flags
DetectRedFlags(search_results, outcome) ==
  IF search_results = << >> THEN << >>
  ELSE IF outcome.raised THEN << >>
  ELSE IF outcome.text.no_flags THEN << >>
  ELSE LET lines == SelectSeq(outcome.text.lines,
                      LAMBDA l : l.warning /\ l.flag # "" /\ ~StartsWithNo(l.flag))
       IN  [i \in 1..Len(lines) |-> lines[i].flag]

\* a sentiment response: json is "valid", "invalid" or "absent" (no {...} in
\* the text), data the object a valid one parses to, words the words
\* 'positive' and 'negative' the text holds
SentimentText(json, data, words) == [json |-> json, data |-> data, words |-> words]

\* dict.get(key, default)
GetOr(d, k, default) == IF k \in DOMAIN d THEN d[k] ELSE default

Sentiment(sentiment, confidence, summary) ==
  [sentiment |-> sentiment, confidence |-> confidence, summary |-> summary]

\* _analyze_sentiment
AnalyzeSentiment(search_results, outcome) ==
  IF search_results = << >>
  THEN Sentiment("unknown", "low", "No external data available for sentiment analysis")
  ELSE IF outcome.raised \/ outcome.text.json = "invalid"
  THEN Sentiment("unknown", "low", "Error analyzing sentiment")
  ELSE IF outcome.text.json = "valid"
  THEN Sentiment(GetOr(outcome.text.data, "sentiment", "mixed"),
                 GetOr(outcome.text.data, "confidence", "medium"),
                 GetOr(outcome.text.data, "summary",
                       "Mixed opinions found across sources"))
  ELSE Sentiment(IF "positive" \in outcome.text.words THEN "positive"
                 ELSE IF "negative" \in outcome.text.words THEN "negative"
                 ELSE "mixed",
                 "medium", "text")

\* the four filtered categories, by result key, and their content types
FilteredCategories ==
  { "external_reviews", "comparison_articles", "reddit_discussions", "news_articles" }

ContentType(category) ==
  CASE category = "external_reviews"    -> "review"
    [] category = "comparison_articles" -> "comparison"
    [] category = "reddit_discussions"  -> "reddit"
    [] category = "news_articles"       -> "news"

\* the three synthesis operations, by result key
SynthesisOperations == { "key_findings", "red_flags", "overall_sentiment" }

Operations == FilteredCategories \cup SynthesisOperations

\* the dict analyze_product returns
InsightBundle(llm_results, issue_discussions, video_reviews, all_results) ==
  [external_reviews |-> llm_results.external_reviews,
   comparison_articles |-> llm_results.comparison_articles,
   issue_discussions |-> issue_discussions,
   reddit_discussions |-> llm_results.reddit_discussions,
   news_articles |-> llm_results.news_articles,
   video_reviews |-> video_reviews,
   key_findings |-> llm_results.key_findings,
   red_flags |-> llm_results.red_flags,
   overall_sentiment |-> llm_results.overall_sentiment,
   total_sources |-> Len(all_results),
   metadata |->
     [review_count |-> Len(llm_results.external_reviews),
      comparison_count |-> Len(llm_results.comparison_articles),
      issue_count |-> Len(issue_discussions),
      reddit_count |-> Len(llm_results.reddit_discussions),
      news_count |-> Len(llm_results.news_articles),
      video_count |-> Len(video_reviews)]]

(***************************************************************************)
(* What the searches and the generative layer can return.                  *)
(***************************************************************************)
\* the results a search returns at most: search(query, num_results=10)
MaxResults == 10

\* the host of the i-th result of a category's search: the reddit search
\* also returns a page of another site; the other searches return videos
\* and a page of the source platform among other pages
HostOf(category, i) ==
  IF category = "reddit_discussions"
  THEN IF i = 2 THEN "news.example" ELSE "www.reddit.com"
  ELSE CASE i = 2 -> "www.youtube.com"
         [] i = 3 -> "www.amazon.in"
         [] i = 5 -> "youtu.be"
         [] OTHER -> "reviews.example"

\* what the five searches return, given the number of results of each
World(sizes) ==
  [c \in CategorySet |->
     LET n == sizes[CHOOSE k \in 1..Len(Categories) : Categories[k] = c]
     IN  [i \in 1..n |-> SearchResult(c, i, HostOf(c, i))]]

\* numbers of results of the five searches: nothing found; a few results of
\* most searches; searches that return all they may; a single search with
\* results
WorldSizes ==
  { << 0, 0, 0, 0, 0 >>, << 3, 1, 1, 2, 0 >>,
    << MaxResults, MaxResults, 4, 0, 0 >>, << 0, 0, 3, 0, 0 >> }

\* texts a filter call returns: the none signal in two letter cases, numbers
\* out of order and repeated, numbers outside the list, no number at all
FilterTexts ==
  { << Word("NONE") >>, << Word("none") >>,
    << Number(2), Number(1), Number(2) >>,
    << Word("relevant"), Number(0), Number(1), Number(MaxResults + 1) >>,
    << Word("all"), Word("relevant") >> }

FilterOutcomes == { Raised } \cup { Responded(t) : t \in FilterTexts }

KeyFindingsOutcomes ==
  { Raised,
    Responded(<< Line("", "Here are the findings"), Line("1.", "finding-1"),
                 Line("-", "finding-2"), Line("2.", "") >>) }

RedFlagsOutcomes ==
  { [raised |-> TRUE, text |-> FlagsText(FALSE, << >>)],
    Responded(FlagsText(TRUE, << >>)),
    Responded(FlagsText(FALSE, << FlagLine(TRUE, "flag-1"),
                                  FlagLine(FALSE, "remark"),
                                  FlagLine(TRUE, "No warning signs found") >>)) }

SentimentOutcomes ==
  { [raised |-> TRUE, text |-> SentimentText("absent", [sentiment |-> ""], { })],
    Responded(SentimentText("valid", [sentiment |-> "positive"], { })),
    Responded(SentimentText("absent", [sentiment |-> ""], { "negative" })) }

(***************************************************************************)
(* _combine_results_node: the flattened competitor price list.             *)
(***************************************************************************)
\* prices are counted in hundredths of the currency unit: the two decimals
\* f"{price_num:,.2f}" prints
PriceUnit == 100

\* the formatted price string: "N/A" for a zero price, else the currency
\* mark followed by the amount, which f"{price_num:,.0f}" rounds to a whole
\* number of rupees and f"{price_num:,.2f}" prints with two decimals
FormatPrice(product) ==
  IF product.price = 0
  THEN [text |-> "N/A", currency |-> "", amount |-> 0]
  ELSE [text |-> "amount", currency |-> product.currency,
        amount |-> IF product.currency = "INR"
                   THEN PriceUnit * RoundDiv(product.price, PriceUnit)
                   ELSE product.price]

\* float('inf'), the sort key of an entry whose price string holds no number
Infinity == 1000000000

\* get_numeric_price: the number found in the formatted string
GetNumericPrice(item) ==
  IF item.price.text = "N/A" THEN Infinity ELSE item.price.amount

CompetitorEntry(platform, product) ==
  [site |-> product.seller, price |-> FormatPrice(product), url |-> product.url,
   availability |-> IF product.in_stock THEN "In Stock" ELSE "Out of Stock"]

RECURSIVE Flatten(_)
\* the entries of all groups, group by group, in discovery order
Flatten(groups) ==
  IF groups = << >> THEN << >>
  ELSE LET group == Head(groups)
       IN  [i \in 1..Len(group.products) |-> CompetitorEntry(group.platform, group.products[i])]
           \o Flatten(Tail(groups))

\* competitor_prices.sort(key=get_numeric_price): ascending by key; list.sort
\* is stable, so entries of equal key keep their order.  The entry at place i
\* moves to the place that counts the entries sorted before it and itself
SortByPrice(items) ==
  LET Before(j, i) ==
        \/ GetNumericPrice(items[j]) < GetNumericPrice(items[i])
        \/ GetNumericPrice(items[j]) = GetNumericPrice(items[i]) /\ j <= i
      Place(i) == Cardinality({ j \in 1..Len(items) : Before(j, i) })
  IN  IF items = << >> THEN << >>
      ELSE [k \in 1..Len(items) |->
              items[CHOOSE i \in 1..Len(items) : Place(i) = k]]

\* number of entries kept in competitor_prices
TopN == 5

CompetitorPrices(price_data) ==
  LET sorted == SortByPrice(Flatten(price_data.price_comparison))
  IN  SubSeq(sorted, 1, IF Len(sorted) < TopN THEN Len(sorted) ELSE TopN)

\* the body of _combine_results_node: the merged product record
CombineRecord(amazon_data, price_data, web_data) ==
  LET withPrice ==
        IF TruthyDict(price_data)
        THEN ("price_comparison" :> price_data)
             @@ ("competitor_prices" :> CompetitorPrices(price_data))
             @@ amazon_data
        ELSE amazon_data
  IN  IF TruthyDict(web_data)
      THEN ("web_search_analysis" :> web_data) @@ withPrice
      ELSE withPrice

(***************************************************************************)
(* State.                                                                  *)
(***************************************************************************)
VARIABLES
  pc,       \* pc[r]: the node run r executes next, or idle/returned/served
  st,       \* st[r]: the ProductWorkflowState of run r
  upd,      \* upd[r]: the updates returned by the two parallel nodes
  cache,    \* the Redis store: key -> value, None when absent
  order,    \* the live keys, oldest write first
  result,   \* result[r]: the dict run(url) returned, None before it returns
  served,   \* served[r]: what scrape_and_analyze_unified gives its caller
  g,        \* g[r]: history of run r (what it found, called and wrote)
  prev,     \* history of the first of two successive calls
  expired,  \* an entry of the store has expired (noted for successive calls)
  cmp,      \* a compare_prices call: its arguments and the value it returned
  sim,      \* an _is_same_product call: its arguments and the value it returned
  ws,       \* an analyze_product call: its arguments, progress and result
  cb        \* the price part of a _combine_results_node call and its result

vars == << pc, st, upd, cache, order, result, served, g, prev, expired, cmp, sim, ws,
          cb >>

NoUrl == [site |-> "", pid |-> NoId]

\* ProductWorkflowState as run() initializes it
InitialState(url) ==
  [url |-> url, asin |-> NoId, amazon_data |-> None,
   price_comparison_data |-> None, web_search_data |-> None,
   product_data |-> None, analysis |-> None, errors |-> << >>,
   scraping_complete |-> FALSE, price_comparison_complete |-> FALSE,
   web_search_complete |-> FALSE, analysis_complete |-> FALSE]

NoCalls ==
  [scrape |-> 0, shopping |-> 0, web |-> 0, llm |-> 0,
   setData |-> 0, setAnalysis |-> 0]

InitialHistory ==
  [found |-> "unchecked", seenData |-> None,
   seenAnalysis |-> None, route |-> "none", scrape |-> "none",
   scraped |-> None, written |-> None,
   price |-> "none", web |-> "none", combined |-> 0, save |-> "none",
   llm |-> "none", engine |-> FALSE, calls |-> NoCalls]

NoPrev == [url |-> NoUrl, data |-> None, stored |-> FALSE]

NoUpdates == [price |-> None, web |-> None]

\* no compare_prices call is followed
NoComparison ==
  [phase |-> "none", product_name |-> "", source_platform |-> "",
   raw_results |-> [shopping |-> << >>], result |-> None]

\* no competitor price list is followed
NoCombine == [phase |-> "none", price_comparison |-> << >>, competitor_prices |-> << >>]

\* no _is_same_product call is followed
NoScore ==
  [attribute_matches |-> 0, total_attributes |-> 0, num |-> 0, den |-> 1]

NoMatch ==
  [phase |-> "none", original_title |-> "", result_title |-> "",
   threshold |-> 0, score |-> NoScore, same |-> FALSE]

NoSentiment == Sentiment("", "", "")

\* llm_results before any operation has finished
NoLlmResults ==
  [external_reviews |-> << >>, comparison_articles |-> << >>,
   reddit_discussions |-> << >>, news_articles |-> << >>,
   key_findings |-> << >>, red_flags |-> << >>, overall_sentiment |-> NoSentiment]

\* an analyze_product call: its arguments, what the searches return, the
\* pipelines and operations that have finished with their results, and a
\* history of the generative calls (made, failed, the filter responses, the
\* results listed in the synthesis prompts)
Analysis(phase, product_name, source_platform, world) ==
  [phase |-> phase, product_name |-> product_name,
   source_platform |-> source_platform, world |-> world,
   searched |-> { }, found |-> [c \in CategorySet |-> << >>],
   all_results |-> << >>, video_reviews |-> << >>,
   finished |-> { }, llm_results |-> NoLlmResults,
   invoked |-> { }, failed |-> { },
   responses |-> [c \in FilteredCategories |-> Raised],
   contexts |-> [o \in SynthesisOperations |-> << >>],
   result |-> None]

\* no analyze_product call is followed
NoAnalysis == Analysis("none", "", "", World(<< 0, 0, 0, 0, 0 >>))

\* the orchestrator after construction, the store empty
Idle ==
  /\ pc = [r \in Runs |-> "idle"]
  /\ st = [r \in Runs |-> InitialState(NoUrl)]
  /\ upd = [r \in Runs |-> NoUpdates]
  /\ cache = [k \in CacheKeys |-> None]
  /\ order = << >>
  /\ result = [r \in Runs |-> None]
  /\ served = [r \in Runs |-> None]
  /\ g = [r \in Runs |-> InitialHistory]
  /\ prev = NoPrev
  /\ expired = FALSE

Init == Idle /\ cmp = NoComparison /\ sim = NoMatch /\ ws = NoAnalysis /\ cb = NoCombine

(***************************************************************************)
(* The state graph's channels.  'errors' is Annotated[list, operator.add]  *)
(* and the four *_complete flags are Annotated[bool, x or y]: a value a    *)
(* node returns for them is combined with the channel's value; every other *)
(* key is overwritten.                                                     *)
(***************************************************************************)
\* a node that returns the whole state dict
Reduce(cur, ret) ==
  [ret EXCEPT
     !.errors = cur.errors \o ret.errors,
     !.scraping_complete = cur.scraping_complete \/ ret.scraping_complete,
     !.price_comparison_complete =
        cur.price_comparison_complete \/ ret.price_comparison_complete,
     !.web_search_complete = cur.web_search_complete \/ ret.web_search_complete,
     !.analysis_complete = cur.analysis_complete \/ ret.analysis_complete]

\* variant: 'errors' without a reducer, the last branch's write wins
ApplyUpdatesLastWins(cur, p, w) ==
  [cur EXCEPT
     !.price_comparison_complete = cur.price_comparison_complete \/ p.complete,
     !.price_comparison_data = IF p.has_data THEN p.data ELSE @,
     !.web_search_complete = cur.web_search_complete \/ w.complete,
     !.web_search_data = IF w.has_data THEN w.data ELSE @,
     !.errors = w.errors]

\* the two parallel nodes return partial updates; both are applied when the
\* superstep ends, get_price_comparison's first
ApplyUpdates(cur, p, w) ==
  [cur EXCEPT
     !.price_comparison_complete = cur.price_comparison_complete \/ p.complete,
     !.price_comparison_data = IF p.has_data THEN p.data ELSE @,
     !.web_search_complete = cur.web_search_complete \/ w.complete,
     !.web_search_data = IF w.has_data THEN w.data ELSE @,
     !.errors = cur.errors \o p.errors \o w.errors]

Updates(has_data, data, errors) ==
  [complete |-> TRUE, has_data |-> has_data, data |-> data, errors |-> errors]

\* variant: cached data without a cached analysis is fetched again
ShouldSkipFetchingAllOrNothing(state) ==
  IF TruthyDict(state.product_data) /\ state.analysis_complete
     /\ TruthyStr(state.analysis)
  THEN "fully_cached"
  ELSE "fetch"

\* _should_skip_fetching
ShouldSkipFetching(state) ==
  IF TruthyDict(state.product_data)
  THEN IF state.analysis_complete /\ TruthyStr(state.analysis)
       THEN "fully_cached"
       ELSE "data_cached"
  ELSE "fetch"

\* variant: the fully cached route still summarizes
EdgeAfterCheckCacheSummarizes(decision) ==
  CASE decision = "fully_cached" -> "analyze_with_llm"
    [] decision = "data_cached"  -> "analyze_with_llm"
    [] decision = "fetch"        -> "scrape_amazon"

\* the conditional edges of _build_workflow
EdgeAfterCheckCache(decision) ==
  CASE decision = "fully_cached" -> "END"
    [] decision = "data_cached"  -> "analyze_with_llm"
    [] decision = "fetch"        -> "scrape_amazon"

\* variant: combine_results leads straight to the summary
EdgeAfterSkipsSave(node) ==
  CASE node = "scrape_amazon"    -> "enrich"
    [] node = "combine_results"  -> "analyze_with_llm"
    [] node = "save_to_cache"    -> "analyze_with_llm"
    [] node = "analyze_with_llm" -> "END"

\* the unconditional edges of _build_workflow; "enrich" is the superstep of
\* get_price_comparison and get_web_search, which combine_results joins
EdgeAfter(node) ==
  CASE node = "scrape_amazon"    -> "enrich"
    [] node = "combine_results"  -> "save_to_cache"
    [] node = "save_to_cache"    -> "analyze_with_llm"
    [] node = "analyze_with_llm" -> "END"

(***************************************************************************)
(* Entry points.                                                           *)
(***************************************************************************)
Finished(r) == pc[r] \in { "idle", "returned", "served" }

\* run() builds the initial state and hands it to the workflow
Begin(r, url) ==
  /\ st' = [st EXCEPT ![r] = InitialState(url)]
  /\ upd' = [upd EXCEPT ![r] = NoUpdates]
  /\ result' = [result EXCEPT ![r] = None]
  /\ served' = [served EXCEPT ![r] = None]
  /\ g' = [g EXCEPT ![r] = InitialHistory]
  /\ pc' = [pc EXCEPT ![r] = "check_cache"]
  /\ UNCHANGED << cache, order >>

\* ProductWorkflowOrchestrator.run(url) called directly
RunCall(r, url) ==
  /\ Finished(r)
  /\ Begin(r, url)
  /\ UNCHANGED << prev, expired, cmp, sim, ws, cb >>

\* ProductService.scrape_and_analyze_unified(url): the URL is validated with
\* the factory, and only a supported URL is handed to run(url)
ServiceCall(r, url) ==
  /\ Finished(r)
  /\ IF IsUrlSupported(url)
     THEN Begin(r, url)
     ELSE /\ st' = [st EXCEPT ![r] = InitialState(url)]
          /\ upd' = [upd EXCEPT ![r] = NoUpdates]
          /\ result' = [result EXCEPT ![r] = None]
          /\ served' = [served EXCEPT ![r] = [raised |-> "ValueError"]]
          /\ g' = [g EXCEPT ![r] = InitialHistory]
          /\ pc' = [pc EXCEPT ![r] = "served"]
          /\ UNCHANGED << cache, order >>
  /\ UNCHANGED << prev, expired, cmp, sim, ws, cb >>

(***************************************************************************)
(* _check_cache_node                                                       *)
(***************************************************************************)
\* variant: one enrichment sub-record is enough
CacheCompleteEither(cached_data) ==
  LET has_price_comp == \/ "price_comparison" \in DOMAIN cached_data
                        \/ "competitor_prices" \in DOMAIN cached_data
      has_web_search == "web_search_analysis" \in DOMAIN cached_data
  IN  has_price_comp \/ has_web_search

\* the truthiness of self.price_comparer and self.web_search_analyzer:
\* __init__ sets both to objects, and nothing assigns them afterwards
price_comparer == TRUE
web_search_analyzer == TRUE

\* variant: a cached record is served whatever sub-records it holds
CacheCompleteAnyRecord(cached_data) == TRUE

\* the completeness test of a cached record: a sub-record is required when
\* its service is set
CacheComplete(cached_data) ==
  LET has_price_comp == \/ "price_comparison" \in DOMAIN cached_data
                        \/ "competitor_prices" \in DOMAIN cached_data
      has_web_search == "web_search_analysis" \in DOMAIN cached_data
  IN  /\ price_comparer => has_price_comp
      /\ web_search_analyzer => has_web_search

\* variant: the lookup failure is swallowed without a record
CacheCheckErrorSilent(state) == state

CacheCheckError(state) ==
  [state EXCEPT !.errors = @ \o << "Cache check error" >>]

\* variant: a cached analysis is loaded whatever the data entry holds
CheckCacheTrustsAnalysis(state, c, redisFails) ==
  IF GetScraper(state.url) = "ValueError"
  THEN CacheCheckError(state)
  ELSE
    LET product_id == ExtractProductId(state.url)
        s1 == [state EXCEPT !.asin = product_id]
        cached_json == RedisGet(c, DataKey(product_id))
        cached_analysis == RedisGet(c, AnalysisKey(product_id))
        s2 == IF TruthyStr(cached_analysis)
              THEN [s1 EXCEPT !.analysis = cached_analysis,
                              !.analysis_complete = TRUE]
              ELSE s1
    IN  IF redisFails THEN CacheCheckError(s1)
        ELSE IF cached_json = None THEN s2
        ELSE IF ~CacheComplete(JsonLoads(cached_json)) THEN s2
        ELSE [s2 EXCEPT !.product_data = JsonLoads(cached_json),
                        !.scraping_complete = TRUE,
                        !.price_comparison_complete = TRUE,
                        !.web_search_complete = TRUE]

\* the state dict the node returns; redisFails: a redis get raises
CheckCache(state, c, redisFails) ==
  IF GetScraper(state.url) = "ValueError"
  THEN CacheCheckError(state)
  ELSE
    LET product_id == ExtractProductId(state.url)
        s1 == [state EXCEPT !.asin = product_id]
        cached_json == RedisGet(c, DataKey(product_id))
        cached_analysis == RedisGet(c, AnalysisKey(product_id))
    IN  IF product_id = NoId THEN s1
        ELSE IF redisFails THEN CacheCheckError(s1)
        ELSE IF cached_json = None THEN s1
        ELSE IF ~CacheComplete(JsonLoads(cached_json)) THEN s1
        ELSE LET s2 == [s1 EXCEPT !.product_data = JsonLoads(cached_json),
                                  !.scraping_complete = TRUE,
                                  !.price_comparison_complete = TRUE,
                                  !.web_search_complete = TRUE]
             IN  IF TruthyStr(cached_analysis)
                 THEN [s2 EXCEPT !.analysis = cached_analysis,
                                 !.analysis_complete = TRUE]
                 ELSE s2

\* history: the entries the lookup read for the product id.  "partial": the
\* data entry lacks the price-side or the search-side sub-record; "data": a
\* data entry with both and no analysis text; "full": both and an analysis
Found(state, c, redisFails) ==
  LET product_id == ExtractProductId(state.url)
      cached_json == RedisGet(c, DataKey(product_id))
      keys == DOMAIN JsonLoads(cached_json)
  IN  IF GetScraper(state.url) = "ValueError" \/ redisFails THEN "error"
      ELSE IF cached_json = None THEN "absent"
      ELSE IF \/ { "price_comparison", "competitor_prices" } \cap keys = { }
              \/ "web_search_analysis" \notin keys
           THEN "partial"
      ELSE IF TruthyStr(RedisGet(c, AnalysisKey(product_id))) THEN "full"
      ELSE "data"

CheckCacheNode(r) ==
  /\ pc[r] = "check_cache"
  /\ \E redisFails \in BOOLEAN :
       /\ redisFails => IsUrlSupported(st[r].url)
       /\ LET next == Reduce(st[r], CheckCache(st[r], cache, redisFails))
              decision == ShouldSkipFetching(next)
              pid == ExtractProductId(st[r].url)
              found == Found(st[r], cache, redisFails)
              json == RedisGet(cache, DataKey(pid))
          IN  /\ st' = [st EXCEPT ![r] = next]
              /\ pc' = [pc EXCEPT ![r] = EdgeAfterCheckCache(decision)]
              /\ g' = [g EXCEPT ![r].found = found,
                                ![r].route = decision,
                                ![r].seenData =
                                   IF found \in { "partial", "data", "full" }
                                   THEN JsonLoads(json) ELSE None,
                                ![r].seenAnalysis =
                                   IF found \in { "absent", "partial", "data", "full" }
                                   THEN RedisGet(cache, AnalysisKey(pid))
                                   ELSE None]
  /\ UNCHANGED << upd, cache, order, result, served, prev, expired, cmp, sim, ws, cb >>

(***************************************************************************)
(* _scrape_amazon_node                                                     *)
(***************************************************************************)
ScrapingError(state) ==
  [state EXCEPT !.errors = @ \o << "Scraping error" >>,
                !.scraping_complete = TRUE]

\* the state dict the node returns when scrape_product returned product_data
Scraped(state, product_data) ==
  [state EXCEPT !.amazon_data = product_data,
                !.asin = IF "asin" \in DOMAIN product_data
                         THEN product_data.asin ELSE product_data.product_id,
                !.scraping_complete = TRUE]

ScrapeAmazonNode(r) ==
  /\ pc[r] = "scrape_amazon"
  /\ LET platform == GetScraper(st[r].url)
     IN  IF platform = "ValueError"
         THEN \* get_scraper raises: scrape_product is never called
              /\ st' = [st EXCEPT ![r] = Reduce(st[r], ScrapingError(st[r]))]
              /\ g' = [g EXCEPT ![r].scrape = "raised"]
         ELSE \/ \* scrape_product raises
                 /\ st' = [st EXCEPT ![r] = Reduce(st[r], ScrapingError(st[r]))]
                 /\ g' = [g EXCEPT ![r].scrape = "raised",
                                   ![r].calls.scrape = @ + 1]
              \/ \E title \in Titles, content \in Contents :
                   /\ st' = [st EXCEPT ![r] =
                        Reduce(st[r], Scraped(st[r],
                                 ScrapeProduct(platform, st[r].url, title, content)))]
                   /\ g' = [g EXCEPT ![r].scrape = "ok",
                                     ![r].scraped =
                                        ScrapeProduct(platform, st[r].url, title, content),
                                     ![r].calls.scrape = @ + 1]
  /\ pc' = [pc EXCEPT ![r] = EdgeAfter("scrape_amazon")]
  /\ upd' = [upd EXCEPT ![r] = NoUpdates]
  /\ UNCHANGED << cache, order, result, served, prev, expired, cmp, sim, ws, cb >>

(***************************************************************************)
(* _price_comparison_node and _web_search_node run in the same superstep:  *)
(* both read the state scrape_amazon left and return partial updates.      *)
(***************************************************************************)
\* the price branch calls compare_prices: it has scraped data with a title
PriceSearches(state) ==
  state.amazon_data # None /\ state.amazon_data.title # ""

\* the updates the node returns; outcome: "raised", or the value
\* compare_prices returned
PriceComparison(state, outcome) ==
  IF state.amazon_data = None
  THEN Updates(FALSE, None, << "Price comparison error" >>)
  ELSE IF state.amazon_data.title = ""
       THEN Updates(FALSE, None, << >>)
       ELSE IF outcome = [raised |-> TRUE]
            THEN Updates(FALSE, None, << "Price comparison error" >>)
            ELSE Updates(TRUE, outcome, << >>)

BranchHistory(state, updates) ==
  IF updates.errors # << >> THEN "raised"
  ELSE IF updates.has_data THEN "ok" ELSE "skipped"

PriceComparisonNode(r) ==
  /\ pc[r] = "enrich"
  /\ upd[r].price = None
  /\ \E outcome \in PriceResults \cup { [raised |-> TRUE] } :
       /\ ~PriceSearches(st[r]) => outcome = [raised |-> TRUE]
       /\ LET updates == PriceComparison(st[r], outcome)
          IN  /\ upd' = [upd EXCEPT ![r].price = updates]
              /\ g' = [g EXCEPT ![r].price = BranchHistory(st[r], updates),
                                ![r].calls.shopping =
                                   IF PriceSearches(st[r]) THEN @ + 1 ELSE @]
  /\ UNCHANGED << pc, st, cache, order, result, served, prev, expired, cmp, sim, ws, cb >>

\* the web branch calls analyze_product: it has scraped data with a title
WebSearches(state) ==
  state.amazon_data # None /\ state.amazon_data.title # ""

WebSearch(state, outcome) ==
  IF state.amazon_data = None
  THEN Updates(FALSE, None, << "Web search error" >>)
  ELSE IF state.amazon_data.title = ""
       THEN Updates(FALSE, None, << >>)
       ELSE IF outcome = [raised |-> TRUE]
            THEN Updates(FALSE, None, << "Web search error" >>)
            ELSE Updates(TRUE, outcome, << >>)

WebSearchNode(r) ==
  /\ pc[r] = "enrich"
  /\ upd[r].web = None
  /\ \E outcome \in WebResults \cup { [raised |-> TRUE] } :
       /\ ~WebSearches(st[r]) => outcome = [raised |-> TRUE]
       /\ LET updates == WebSearch(st[r], outcome)
          IN  /\ upd' = [upd EXCEPT ![r].web = updates]
              /\ g' = [g EXCEPT ![r].web = BranchHistory(st[r], updates),
                                ![r].calls.web =
                                   IF WebSearches(st[r]) THEN @ + 1 ELSE @]
  /\ UNCHANGED << pc, st, cache, order, result, served, prev, expired, cmp, sim, ws, cb >>

(***************************************************************************)
(* _combine_results_node: runs in the superstep after both branches.       *)
(***************************************************************************)
\* the state dict the node returns; product_data is the amazon_data dict
\* itself, so the keys added to it show in both
Combine(state) ==
  LET product_data ==
        CombineRecord(state.amazon_data, state.price_comparison_data,
                      state.web_search_data)
  IN  [state EXCEPT !.amazon_data = product_data, !.product_data = product_data]

\* variant: the join waits for a branch to deliver data
BranchDoneWithData(updates) == updates # None /\ updates.has_data

\* a branch node has returned its updates, so its edge into combine_results
\* is satisfied
BranchDone(updates) == updates # None

CombineResultsNode(r) ==
  /\ pc[r] = "enrich"
  /\ BranchDone(upd[r].price)
  /\ BranchDone(upd[r].web)
  /\ \E joined \in { ApplyUpdates(st[r], upd[r].price, upd[r].web) } :
       \E returned \in { Combine(joined) } :
         st' = [st EXCEPT ![r] = Reduce(joined, returned)]
  /\ upd' = [upd EXCEPT ![r] = NoUpdates]
  /\ g' = [g EXCEPT ![r].combined = @ + 1]
  /\ pc' = [pc EXCEPT ![r] = EdgeAfter("combine_results")]
  /\ UNCHANGED << cache, order, result, served, prev, expired, cmp, sim, ws, cb >>

(***************************************************************************)
(* _save_to_cache_node                                                     *)
(***************************************************************************)
\* variant: the guard on missing product data is dropped
SaveWritesUnguarded(state) == state.asin # NoId

\* json.dumps and setex are attempted: there is product data and an id
SaveWrites(state) == TruthyDict(state.product_data) /\ state.asin # NoId

CacheSaveError(state) ==
  [state EXCEPT !.errors = @ \o << "Cache save error" >>]

\* the state dict the node returns; redisFails: setex raises
SaveToCache(state, redisFails) ==
  IF SaveWrites(state) /\ redisFails THEN CacheSaveError(state) ELSE state

SaveToCacheNode(r) ==
  /\ pc[r] = "save_to_cache"
  /\ \E redisFails \in BOOLEAN :
       /\ redisFails => SaveWrites(st[r])
       /\ st' = [st EXCEPT ![r] = Reduce(st[r], SaveToCache(st[r], redisFails))]
       /\ IF SaveWrites(st[r]) /\ ~redisFails
          THEN /\ cache' = RedisSetex(cache, DataKey(st[r].asin),
                                      JsonDumps(st[r].product_data))
               /\ order' = Renew(order, DataKey(st[r].asin))
          ELSE UNCHANGED << cache, order >>
       /\ g' = [g EXCEPT ![r].save =
                            IF ~SaveWrites(st[r]) THEN "skipped"
                            ELSE IF redisFails THEN "raised" ELSE "ok",
                         ![r].written =
                            IF SaveWrites(st[r]) /\ ~redisFails
                            THEN st[r].product_data ELSE @,
                         ![r].calls.setData =
                            IF SaveWrites(st[r]) THEN @ + 1 ELSE @]
  /\ pc' = [pc EXCEPT ![r] = EdgeAfter("save_to_cache")]
  /\ UNCHANGED << upd, result, served, prev, expired, cmp, sim, ws, cb >>

(***************************************************************************)
(* _analyze_with_llm_node                                                  *)
(***************************************************************************)
AnalysisError(state) ==
  [state EXCEPT !.errors = @ \o << "Analysis error" >>]

LlmOutcomes == { "raised", "empty", "text", "text_cache_fails" }

\* the chain is invoked: state["product_data"].get raises first when the
\* product data is None
LlmInvoked(state) == state.product_data # None

\* the analysis text the chain returned
Narrative(state, outcome) ==
  IF outcome = "empty" THEN Str("", None) ELSE Str("narrative", state.product_data)

\* the state dict the node returns, analysis_complete set
AnalyzeWithLlm(state, outcome) ==
  LET body ==
        IF ~LlmInvoked(state) \/ outcome = "raised"
        THEN AnalysisError(state)
        ELSE IF outcome = "text_cache_fails"
             THEN AnalysisError([state EXCEPT !.analysis = Narrative(state, outcome)])
             ELSE [state EXCEPT !.analysis = Narrative(state, outcome)]
  IN  [body EXCEPT !.analysis_complete = TRUE]

\* setex of the analysis entry is attempted
AnalysisWrites(state, outcome) ==
  LlmInvoked(state) /\ outcome \in { "text", "text_cache_fails" }

AnalyzeWithLlmNode(r) ==
  /\ pc[r] = "analyze_with_llm"
  /\ \E outcome \in LlmOutcomes :
       /\ ~LlmInvoked(st[r]) => outcome = "raised"
       /\ st' = [st EXCEPT ![r] = Reduce(st[r], AnalyzeWithLlm(st[r], outcome))]
       /\ IF LlmInvoked(st[r]) /\ outcome = "text"
          THEN /\ cache' = RedisSetex(cache, AnalysisKey(st[r].asin),
                                      Narrative(st[r], outcome))
               /\ order' = IF AnalysisKey(st[r].asin) \in CacheKeys
                           THEN Renew(order, AnalysisKey(st[r].asin)) ELSE order
          ELSE UNCHANGED << cache, order >>
       /\ g' = [g EXCEPT ![r].llm =
                            IF ~LlmInvoked(st[r]) THEN "skipped" ELSE outcome,
                         ![r].calls.llm =
                            IF LlmInvoked(st[r]) THEN @ + 1 ELSE @,
                         ![r].calls.setAnalysis =
                            IF AnalysisWrites(st[r], outcome) THEN @ + 1 ELSE @]
  /\ pc' = [pc EXCEPT ![r] = EdgeAfter("analyze_with_llm")]
  /\ UNCHANGED << upd, result, served, prev, expired, cmp, sim, ws, cb >>

(***************************************************************************)
(* run(): workflow.invoke returns the final state, or raises.              *)
(***************************************************************************)
InFlight(r) ==
  pc[r] \in { "check_cache", "scrape_amazon", "enrich", "save_to_cache",
              "analyze_with_llm" }

\* workflow.invoke raises out of the graph run (the except branch of run)
InvokeRaises(r) ==
  /\ InFlight(r)
  /\ pc' = [pc EXCEPT ![r] = "raised"]
  /\ st' = [st EXCEPT ![r] = InitialState(st[r].url)]
  /\ upd' = [upd EXCEPT ![r] = NoUpdates]
  /\ g' = [g EXCEPT ![r].engine = TRUE]
  /\ UNCHANGED << cache, order, result, served, prev, expired, cmp, sim, ws, cb >>

\* variant: success reports whether the run recorded no error
SuccessResultIfNoErrors(final_state) ==
  [success |-> final_state.errors = << >>, data |-> final_state.product_data,
   analysis |-> final_state.analysis, errors |-> final_state.errors]

\* the dict run() returns from the final state
SuccessResult(final_state) ==
  [success |-> TRUE, data |-> final_state.product_data,
   analysis |-> final_state.analysis, errors |-> final_state.errors]

\* the dict run() returns when workflow.invoke raised
FailureResult ==
  [success |-> FALSE, error |-> "workflow error",
   errors |-> << "workflow error" >>]

\* scrape_and_analyze_unified after run() returned: what its caller gets
ServiceOutcome(res) ==
  IF ~res.success
  THEN [raised |-> "Exception"]
  ELSE [structured_data |-> res.data, analysis |-> res.analysis]

ReturnRun(r) ==
  /\ pc[r] \in { "END", "raised" }
  /\ result' = [result EXCEPT ![r] =
                  IF pc[r] = "END" THEN SuccessResult(st[r]) ELSE FailureResult]
  /\ st' = [st EXCEPT ![r] = InitialState(st[r].url)]
  /\ served' = [served EXCEPT ![r] =
                  IF IsUrlSupported(st[r].url)
                  THEN ServiceOutcome(IF pc[r] = "END" THEN SuccessResult(st[r])
                                      ELSE FailureResult)
                  ELSE None]
  /\ pc' = [pc EXCEPT ![r] = "returned"]
  /\ UNCHANGED << upd, cache, order, g, prev, expired, cmp, sim, ws, cb >>

(***************************************************************************)
(* The store drops the entry whose TTL runs out first.                     *)
(***************************************************************************)
ExpireEntry ==
  /\ order # << >>
  /\ cache' = [cache EXCEPT ![Head(order)] = None]
  /\ order' = Tail(order)
  /\ UNCHANGED << pc, st, upd, result, served, g, prev, cmp, sim, ws, cb >>

Expire == ExpireEntry /\ UNCHANGED expired

(***************************************************************************)
(* Specification: calls are served one at a time, any number of them.      *)
(***************************************************************************)
Next ==
  \/ \E r \in SeqRuns, url \in Urls : RunCall(r, url)
  \/ \E r \in SeqRuns, url \in Urls : ServiceCall(r, url)
  \/ \E r \in SeqRuns : CheckCacheNode(r)
  \/ \E r \in SeqRuns : ScrapeAmazonNode(r)
  \/ \E r \in SeqRuns : PriceComparisonNode(r)
  \/ \E r \in SeqRuns : WebSearchNode(r)
  \/ \E r \in SeqRuns : CombineResultsNode(r)
  \/ \E r \in SeqRuns : SaveToCacheNode(r)
  \/ \E r \in SeqRuns : AnalyzeWithLlmNode(r)
  \/ \E r \in SeqRuns : InvokeRaises(r)
  \/ \E r \in SeqRuns : ReturnRun(r)
  \/ Expire

Spec == Init /\ [][Next]_vars

(***************************************************************************)
(* Specification: run(url) is called twice in succession.  The second call *)
(* remembers what the first returned, and expiries are noted.              *)
(***************************************************************************)
\* what is remembered of the first call: the data it returned and whether
\* that record is the one it read from or wrote to the store
Summary(r) ==
  [url |-> st[r].url,
   data |-> Get(result[r], "data"),
   stored |-> result[r].success
              /\ (g[r].route \in { "fully_cached", "data_cached" } \/ g[r].save = "ok")]

FirstCall(r, url) ==
  /\ pc[r] = "idle"
  /\ Begin(r, url)
  /\ UNCHANGED << prev, expired, cmp, sim, ws, cb >>

SecondCall(r, url) ==
  /\ pc[r] = "returned"
  /\ prev = NoPrev
  /\ prev' = Summary(r)
  /\ Begin(r, url)
  /\ UNCHANGED << expired, cmp, sim, ws, cb >>

ExpireNoted == ExpireEntry /\ expired' = TRUE

NextTwice ==
  \/ \E r \in SeqRuns, url \in Urls : FirstCall(r, url)
  \/ \E r \in SeqRuns, url \in Urls : SecondCall(r, url)
  \/ \E r \in SeqRuns : CheckCacheNode(r)
  \/ \E r \in SeqRuns : ScrapeAmazonNode(r)
  \/ \E r \in SeqRuns : PriceComparisonNode(r)
  \/ \E r \in SeqRuns : WebSearchNode(r)
  \/ \E r \in SeqRuns : CombineResultsNode(r)
  \/ \E r \in SeqRuns : SaveToCacheNode(r)
  \/ \E r \in SeqRuns : AnalyzeWithLlmNode(r)
  \/ \E r \in SeqRuns : InvokeRaises(r)
  \/ \E r \in SeqRuns : ReturnRun(r)
  \/ ExpireNoted

SpecTwice == Init /\ [][NextTwice]_vars

\* a step of run r: the node the graph runs next, or run() returning.  Every
\* call a node makes returns or raises, so a node that can run does run
RunStep(r) ==
  \/ CheckCacheNode(r)
  \/ ScrapeAmazonNode(r)
  \/ PriceComparisonNode(r)
  \/ WebSearchNode(r)
  \/ CombineResultsNode(r)
  \/ SaveToCacheNode(r)
  \/ AnalyzeWithLlmNode(r)
  \/ ReturnRun(r)

SpecTwiceFair == SpecTwice /\ \A r \in SeqRuns : WF_vars(RunStep(r))

(***************************************************************************)
(* Specification: two concurrent run(url) calls for the same item, started *)
(* on an empty cache; the nodes of the two runs interleave.                *)
(***************************************************************************)
ConcRuns == { 1, 2 }

ConcUrl == CHOOSE u \in Urls : IsUrlSupported(u)

ConcCall(r) ==
  /\ pc[r] = "idle"
  /\ Begin(r, ConcUrl)
  /\ UNCHANGED << prev, expired, cmp, sim, ws, cb >>

NextConc ==
  \/ \E r \in ConcRuns : ConcCall(r)
  \/ \E r \in ConcRuns : CheckCacheNode(r)
  \/ \E r \in ConcRuns : ScrapeAmazonNode(r)
  \/ \E r \in ConcRuns : PriceComparisonNode(r)
  \/ \E r \in ConcRuns : WebSearchNode(r)
  \/ \E r \in ConcRuns : CombineResultsNode(r)
  \/ \E r \in ConcRuns : SaveToCacheNode(r)
  \/ \E r \in ConcRuns : AnalyzeWithLlmNode(r)
  \/ \E r \in ConcRuns : InvokeRaises(r)
  \/ \E r \in ConcRuns : ReturnRun(r)

SpecConc == Init /\ [][NextConc]_vars


(***************************************************************************)
(* Specification: compare_prices is called on a list of raw results and    *)
(* returns its aggregation.                                                *)
(***************************************************************************)
\* longest list of raw results
MaxOffers == 3

Sellers == { "Amazon.in", "Flipkart", "Croma" }

\* the raw results a search can return: per seller, a listing of the product
\* with an extracted price, with a price to be parsed from the string, at a
\* higher price and without a price; a listing of another product; a result
\* that cannot be read
RawPool ==
  { RawResult(s, ProductTitle, PriceText("rupee", 500), 500, 3) : s \in Sellers }
  \cup { RawResult(s, ProductTitle, PriceText("rupee", 500), 0, 4) : s \in Sellers }
  \cup { RawResult(s, ProductTitle, PriceText("dollar", 700), 700, 4) : s \in Sellers }
  \cup { RawResult(s, ProductTitle, NoPriceText, 0, 4) : s \in Sellers }
  \cup { RawResult("Croma", OtherTitle, PriceText("rupee", 400), 400, 5),
         MalformedResult }

RawLists == UNION { [1..n -> RawPool] : n \in 0..MaxOffers }

\* the platform names callers pass: the scrapers' names, and the capitalized
\* form of the docstring
SourcePlatforms == { "amazon", "flipkart", "Amazon" }

InitPrices ==
  /\ Idle
  /\ sim = NoMatch
  /\ ws = NoAnalysis
  /\ cb = NoCombine
  /\ \E source_platform \in SourcePlatforms,
        raw_results \in { SearchError, ErrorWithResults }
                          \cup { [shopping |-> l] : l \in RawLists } :
       cmp = [phase |-> "called", product_name |-> ProductTitle,
              source_platform |-> source_platform,
              raw_results |-> raw_results, result |-> None]

ComparePricesReturns ==
  /\ cmp.phase = "called"
  /\ cmp' = [cmp EXCEPT !.phase = "returned",
                        !.result = ComparePrices(cmp.product_name,
                                                 cmp.source_platform,
                                                 cmp.raw_results)]
  /\ UNCHANGED << pc, st, upd, cache, order, result, served, g, prev, expired, sim, ws, cb >>

NextPrices == ComparePricesReturns

SpecPrices == InitPrices /\ [][NextPrices]_vars

(***************************************************************************)
(* WebSearchAnalyzer.analyze_product.  The five search pipelines run on a  *)
(* thread pool and are collected; then the four filters and the three      *)
(* synthesis operations run on a thread pool, each on the lists the        *)
(* searches produced, and are collected.                                   *)
(***************************************************************************)
\* variant: the collected results are keyed by the order of completion
ResultKeyByCompletion(key, done, submitted) ==
  LET keys == { submitted[i] : i \in 1..Len(submitted) }
  IN  IF key \in keys THEN submitted[Cardinality(done \cap keys) + 1] ELSE key

\* result_key = futures[future]: the key the future was submitted under;
\* done: the keys collected so far, submitted: the keys in submission order
ResultKey(key, done, submitted) == key

\* the four filters in the order they are submitted
SubmittedFilters ==
  << "external_reviews", "comparison_articles", "reddit_discussions",
     "news_articles" >>

\* one pipeline of _run_search_pipelines_parallel finishes
SearchPipeline(category) ==
  /\ ws.phase = "searching"
  /\ category \notin ws.searched
  /\ ws' = [ws EXCEPT
              !.searched = @ \cup { category },
              !.found[ResultKey(category, ws.searched, Categories)] =
                 SearchAndProcess(ws.world[category], SearchType(category),
                                  ws.source_platform)]
  /\ UNCHANGED << pc, st, upd, cache, order, result, served, g, prev, expired, cmp, sim, cb >>

\* the pipelines are collected: the lists are concatenated, the videos are
\* extracted and the seven operations are submitted
SearchesCollected ==
  /\ ws.phase = "searching"
  /\ ws.searched = CategorySet
  /\ ws' = [ws EXCEPT
              !.phase = "analyzing",
              !.all_results = AllResults(ws.found),
              !.video_reviews = ExtractVideoReviews(AllResults(ws.found))]
  /\ UNCHANGED << pc, st, upd, cache, order, result, served, g, prev, expired, cmp, sim, cb >>

\* an operation finished: its result, and the history of its call
Finish(operation, value, results, outcome) ==
  [ws EXCEPT
     !.finished = @ \cup { operation },
     !.llm_results[ResultKey(operation, ws.finished, SubmittedFilters)] = value,
     !.invoked = IF Invokes(results) THEN @ \cup { operation } ELSE @,
     !.failed = IF Invokes(results) /\ outcome.raised
                THEN @ \cup { operation } ELSE @]

\* _filter_irrelevant_content of one category
FilterOperation(category) ==
  /\ ws.phase = "analyzing"
  /\ category \notin ws.finished
  /\ \E outcome \in FilterOutcomes :
       /\ ~Invokes(ws.found[category]) => outcome = Raised
       /\ ws' = [Finish(category,
                        FilterIrrelevantContent(ws.found[category], outcome),
                        ws.found[category], outcome)
                   EXCEPT !.responses[category] = outcome]
  /\ UNCHANGED << pc, st, upd, cache, order, result, served, g, prev, expired, cmp, sim, cb >>

\* summarize_with_llm(all_results, product_name)
SummarizeOperation ==
  /\ ws.phase = "analyzing"
  /\ "key_findings" \notin ws.finished
  /\ \E outcome \in KeyFindingsOutcomes :
       /\ ~Invokes(ws.all_results) => outcome = Raised
       /\ ws' = [Finish("key_findings", SummarizeWithLlm(ws.all_results, outcome),
                        ws.all_results, outcome)
                   EXCEPT !.contexts.key_findings =
                             IF Invokes(ws.all_results)
                             THEN KeyFindingsContext(ws.all_results) ELSE @]
  /\ UNCHANGED << pc, st, upd, cache, order, result, served, g, prev, expired, cmp, sim, cb >>

\* detect_red_flags(all_results, product_name)
RedFlagsOperation ==
  /\ ws.phase = "analyzing"
  /\ "red_flags" \notin ws.finished
  /\ \E outcome \in RedFlagsOutcomes :
       /\ ~Invokes(ws.all_results) => outcome.raised
       /\ ws' = [Finish("red_flags", DetectRedFlags(ws.all_results, outcome),
                        ws.all_results, outcome)
                   EXCEPT !.contexts.red_flags =
                             IF Invokes(ws.all_results)
                             THEN RedFlagsContext(ws.all_results) ELSE @]
  /\ UNCHANGED << pc, st, upd, cache, order, result, served, g, prev, expired, cmp, sim, cb >>

\* _analyze_sentiment(all_results, product_name)
SentimentOperation ==
  /\ ws.phase = "analyzing"
  /\ "overall_sentiment" \notin ws.finished
  /\ \E outcome \in SentimentOutcomes :
       /\ ~Invokes(ws.all_results) => outcome.raised
       /\ ws' = [Finish("overall_sentiment",
                        AnalyzeSentiment(ws.all_results, outcome),
                        ws.all_results, outcome)
                   EXCEPT !.contexts.overall_sentiment =
                             IF Invokes(ws.all_results)
                             THEN SentimentContext(ws.all_results) ELSE @]
  /\ UNCHANGED << pc, st, upd, cache, order, result, served, g, prev, expired, cmp, sim, cb >>

\* the seven operations are collected and analyze_product returns
AnalyzeProductReturns ==
  /\ ws.phase = "analyzing"
  /\ ws.finished = Operations
  /\ ws' = [ws EXCEPT
              !.phase = "returned",
              !.result = InsightBundle(ws.llm_results, ws.found.issue_discussions,
                                       ws.video_reviews, ws.all_results)]
  /\ UNCHANGED << pc, st, upd, cache, order, result, served, g, prev, expired, cmp, sim, cb >>

(***************************************************************************)
(* Specification: analyze_product is called for a product and a source     *)
(* platform, and the searches and the generative layer answer.             *)
(***************************************************************************)
\* the platform names callers pass
WebSourcePlatforms == { "amazon", "flipkart" }

InitWeb ==
  /\ Idle
  /\ cmp = NoComparison
  /\ sim = NoMatch
  /\ cb = NoCombine
  /\ \E source_platform \in WebSourcePlatforms, sizes \in WorldSizes :
       ws = Analysis("searching", ProductTitle, source_platform, World(sizes))

NextWeb ==
  \/ \E category \in CategorySet : SearchPipeline(category)
  \/ SearchesCollected
  \/ \E category \in FilteredCategories : FilterOperation(category)
  \/ SummarizeOperation
  \/ RedFlagsOperation
  \/ SentimentOperation
  \/ AnalyzeProductReturns

SpecWeb == InitWeb /\ [][NextWeb]_vars

(***************************************************************************)
(* Specification: one run(url) on an empty cache whose web branch is       *)
(* followed into analyze_product.  _web_search_node calls analyze_product  *)
(* with the scraped title and platform and returns its updates when the    *)
(* call has returned.                                                      *)
(***************************************************************************)
\* numbers of results of the five searches
RunWorldSizes == { << 0, 0, 0, 0, 0 >>, << 2, 0, 0, 0, 0 >> }

\* _web_search_node calls analyze_product(product_title, source_platform)
AnalyzeProductCalled(r) ==
  /\ pc[r] = "enrich"
  /\ upd[r].web = None
  /\ WebSearches(st[r])
  /\ ws.phase = "none"
  /\ \E sizes \in RunWorldSizes :
       ws' = Analysis("searching", st[r].amazon_data.title,
                      st[r].amazon_data.platform, World(sizes))
  /\ UNCHANGED << pc, st, upd, cache, order, result, served, g, prev, expired, cmp, sim, cb >>

\* analyze_product returned: the node returns its updates
WebSearchNodeReturns(r) ==
  /\ pc[r] = "enrich"
  /\ upd[r].web = None
  /\ ws.phase = "returned"
  /\ LET updates == WebSearch(st[r], ws.result)
     IN  /\ upd' = [upd EXCEPT ![r].web = updates]
         /\ g' = [g EXCEPT ![r].web = BranchHistory(st[r], updates),
                           ![r].calls.web = @ + 1]
  /\ UNCHANGED << pc, st, cache, order, result, served, prev, expired, cmp, sim, ws, cb >>

\* the node without a scraped title: analyze_product is not called
WebSearchNodeSkips(r) ==
  /\ ~WebSearches(st[r])
  /\ WebSearchNode(r)

NextRunWeb ==
  \/ \E r \in SeqRuns : ConcCall(r)
  \/ \E r \in SeqRuns : CheckCacheNode(r)
  \/ \E r \in SeqRuns : ScrapeAmazonNode(r)
  \/ \E r \in SeqRuns : PriceComparisonNode(r)
  \/ \E r \in SeqRuns : AnalyzeProductCalled(r)
  \/ \E category \in CategorySet : SearchPipeline(category)
  \/ SearchesCollected
  \/ \E category \in FilteredCategories : FilterOperation(category)
  \/ SummarizeOperation
  \/ RedFlagsOperation
  \/ SentimentOperation
  \/ AnalyzeProductReturns
  \/ \E r \in SeqRuns : WebSearchNodeReturns(r)
  \/ \E r \in SeqRuns : WebSearchNodeSkips(r)
  \/ \E r \in SeqRuns : CombineResultsNode(r)
  \/ \E r \in SeqRuns : SaveToCacheNode(r)
  \/ \E r \in SeqRuns : AnalyzeWithLlmNode(r)
  \/ \E r \in SeqRuns : InvokeRaises(r)
  \/ \E r \in SeqRuns : ReturnRun(r)

SpecRunWeb == Init /\ [][NextRunWeb]_vars

(***************************************************************************)
(* Specification: _is_same_product is called on two titles.                *)
(***************************************************************************)
InitMatch ==
  /\ Idle
  /\ cmp = NoComparison
  /\ ws = NoAnalysis
  /\ cb = NoCombine
  /\ \E original_title \in ListingTitles, result_title \in ListingTitles :
       sim = [phase |-> "called", original_title |-> original_title,
              result_title |-> result_title, threshold |-> Threshold,
              score |-> NoScore, same |-> FALSE]

\* what _calculate_product_similarity computed: the attribute counts and
\* the final similarity
Score(title1, title2) ==
  LET similarity == CalculateProductSimilarity(title1, title2)
      final == FinalSimilarity(title1, title2)
  IN  [attribute_matches |-> similarity.attribute_matches,
       total_attributes |-> similarity.total_attributes,
       num |-> final.num, den |-> final.den]

IsSameProductReturns ==
  /\ sim.phase = "called"
  /\ sim' = [sim EXCEPT !.phase = "returned",
                        !.score = Score(sim.original_title, sim.result_title),
                        !.same = IsSameProduct(sim.original_title,
                                               sim.result_title, sim.threshold)]
  /\ UNCHANGED << pc, st, upd, cache, order, result, served, g, prev, expired, cmp, ws, cb >>

NextMatch == IsSameProductReturns

SpecMatch == InitMatch /\ [][NextMatch]_vars

(***************************************************************************)
(* Specification: the competitor price list of _combine_results_node, for  *)
(* the offer groups compare_prices can return: up to MaxCompetitors offers *)
(* of two sellers (rupee prices at Flipkart, dollar prices at Croma), some *)
(* of them a fraction of a rupee apart, some without a price.              *)
(***************************************************************************)
MaxCompetitors == 6

\* prices in hundredths: none, 499.30, 499.40, 499.50 and 700.00
CompetitorAmounts == { 0, 49930, 49940, 49950, 70000 }

\* the i-th offer found; its url tells it from the others
CompetitorOffer(i, price) ==
  LET seller == IF i % 2 = 1 THEN "Flipkart" ELSE "Croma"
  IN  Offer(ProductTitle, seller, ExtractPlatformFromSource(seller), price,
            IF seller = "Flipkart" THEN "INR" ELSE "USD", 4, i)

CompetitorOffers(amounts) ==
  [i \in 1..Len(amounts) |-> CompetitorOffer(i, amounts[i])]

InitCombine ==
  /\ Idle
  /\ cmp = NoComparison /\ sim = NoMatch /\ ws = NoAnalysis
  /\ \E n \in 0..MaxCompetitors :
       \E amounts \in [1..n -> CompetitorAmounts] :
         cb = [phase |-> "called",
               price_comparison |-> GroupByPlatform(CompetitorOffers(amounts)),
               competitor_prices |-> << >>]

\* the loop, sort and slice of _combine_results_node
CompetitorPricesBuilt ==
  /\ cb.phase = "called"
  /\ cb' = [cb EXCEPT
              !.phase = "returned",
              !.competitor_prices =
                 CompetitorPrices([price_comparison |-> cb.price_comparison])]
  /\ UNCHANGED << pc, st, upd, cache, order, result, served, g, prev, expired, cmp,
                  sim, ws >>

NextCombine == CompetitorPricesBuilt

SpecCombine == InitCombine /\ [][NextCombine]_vars

(***************************************************************************)
(* Properties.                                                             *)
(***************************************************************************)
Returned(r) == pc[r] = "returned"

\* the run is past the scrape node (a run that returned success ran to END)
PastScrape(r) ==
  \/ pc[r] \in { "enrich", "save_to_cache", "analyze_with_llm", "END" }
  \/ pc[r] = "returned" /\ result[r].success

\* the run is past the combine node
PastCombine(r) ==
  \/ pc[r] \in { "save_to_cache", "analyze_with_llm", "END" }
  \/ pc[r] = "returned" /\ result[r].success

\* the record has the price-side and the search-side sub-record
Enriched(d) ==
  /\ d # None
  /\ { "price_comparison", "competitor_prices" } \cap DOMAIN d # { }
  /\ "web_search_analysis" \in DOMAIN d

\* the second of two successive calls for the same supported URL has
\* returned and no entry of the store expired meanwhile
SecondReturned(r) ==
  /\ Returned(r)
  /\ prev # NoPrev
  /\ IsUrlSupported(st[r].url)
  /\ prev.url = st[r].url
  /\ ~expired

C2_FullyCachedShortCircuits ==
  \A r \in SeqRuns :
    g[r].found = "full" =>
      /\ pc[r] \in { "END", "returned" }
      /\ g[r].route = "fully_cached"
      /\ g[r].calls = NoCalls
      /\ g[r].combined = 0
      /\ Returned(r) =>
           /\ result[r].success
           /\ result[r].data = g[r].seenData
           /\ result[r].analysis = g[r].seenAnalysis

C2_Witness ==
  \E r \in SeqRuns :
    /\ Returned(r) /\ g[r].found = "full"
    /\ TruthyStr(result[r].analysis)
    /\ result[r].data = g[r].seenData

\* C3: when the cached data entry lacks the price-side or the search-side
\* sub-record the run is routed to the fetch path, with or without an analysis
\* entry: nothing is loaded from the cache, the scrape is invoked, and the
\* data returned is built by this run's fetch
C3_PartialCacheRefetched ==
  \A r \in SeqRuns :
    g[r].found = "partial" =>
      /\ g[r].route = "fetch"
      /\ pc[r] = "scrape_amazon" =>
           st[r].product_data = None /\ st[r].analysis = None
      /\ PastScrape(r) => g[r].calls.scrape = 1
      /\ (Returned(r) /\ result[r].success /\ result[r].data # None) =>
           g[r].scrape = "ok" /\ g[r].combined = 1

C3_Witness ==
  \E r \in SeqRuns :
    /\ Returned(r) /\ g[r].found = "partial"
    /\ TruthyStr(g[r].seenAnalysis)
    /\ g[r].calls.scrape = 1
    /\ result[r].success /\ result[r].data # None

\* C4: when the lookup finds a complete data entry and no analysis entry the
\* run goes straight to the summarization: no scrape, no enrichment branch,
\* no write of the data entry, exactly one summarization call, and the data
\* returned is the cached record
C4_DataCachedSummarizesOnly ==
  \A r \in SeqRuns :
    g[r].found = "data" =>
      /\ g[r].route = "data_cached"
      /\ g[r].calls.scrape = 0
      /\ g[r].calls.shopping = 0 /\ g[r].calls.web = 0
      /\ g[r].price = "none" /\ g[r].web = "none" /\ g[r].combined = 0
      /\ g[r].calls.setData = 0
      /\ pc[r] = "analyze_with_llm" => g[r].calls.llm = 0
      /\ pc[r] = "END" => g[r].calls.llm = 1
      /\ (Returned(r) /\ result[r].success) =>
           /\ g[r].calls.llm = 1
           /\ result[r].data = g[r].seenData

C4_Witness ==
  \E r \in SeqRuns :
    /\ Returned(r) /\ g[r].found = "data"
    /\ result[r].success
    /\ g[r].calls.llm = 1
    /\ result[r].data = g[r].seenData

\* C5: whenever the scrape step raises, run returns success=false
C5_ScrapeFailureAborts ==
  \A r \in SeqRuns :
    (Returned(r) /\ g[r].scrape = "raised") => ~result[r].success

\* C6: whenever the scrape step succeeds, run returns success=true and the
\* scraped record, whatever failures occur in the price branch, the web
\* branch, the cache store or the summarization call
C6_EnrichmentFailuresDegrade ==
  \A r \in SeqRuns :
    (Returned(r) /\ g[r].scrape = "ok" /\ ~g[r].engine) =>
      /\ result[r].success
      /\ result[r].data # None

C6_Witness ==
  \E r \in SeqRuns :
    /\ Returned(r) /\ g[r].scrape = "ok"
    /\ g[r].price = "raised" /\ g[r].web = "raised"
    /\ g[r].save = "raised" /\ g[r].llm = "raised"
    /\ result[r].success

\* C7: when the scrape step raises, the run writes neither cache entry and
\* never invokes the shopping search, the web searches or the generative layer
C7_ScrapeFailureDoesNothingElse ==
  \A r \in SeqRuns :
    g[r].scrape = "raised" =>
      /\ g[r].calls.setData = 0 /\ g[r].calls.setAnalysis = 0
      /\ g[r].calls.shopping = 0 /\ g[r].calls.web = 0
      /\ g[r].calls.llm = 0

C7_Witness ==
  \E r \in SeqRuns :
    /\ Returned(r) /\ g[r].scrape = "raised"
    /\ g[r].calls.scrape = 1
    /\ g[r].save = "skipped" /\ g[r].llm = "skipped"

\* C8: every value run returns, the failure value included, has the four
\* fields success, data, analysis and errors
C8_ResultShape ==
  \A r \in SeqRuns :
    Returned(r) =>
      { "success", "data", "analysis", "errors" } \subseteq DOMAIN result[r]

\* C9: for a URL no scraper supports, run returns a failure, not a success,
\* and makes no scrape request, no search request and no generative call
C9_UnsupportedUrlRejected ==
  \A r \in SeqRuns :
    (Returned(r) /\ ~IsUrlSupported(st[r].url)) =>
      /\ ~result[r].success
      /\ g[r].calls.scrape = 0
      /\ g[r].calls.shopping = 0 /\ g[r].calls.web = 0
      /\ g[r].calls.llm = 0

\* exactly one of the two enrichment branches raised
OnlyPriceRaised(r) == g[r].price = "raised" /\ g[r].web \notin { "none", "raised" }
OnlyWebRaised(r) == g[r].web = "raised" /\ g[r].price \notin { "none", "raised" }

Contains(seq, x) == \E i \in 1..Len(seq) : seq[i] = x

\* C10: if exactly one enrichment branch raises, the other completes, its
\* result is merged into the record, the combine step runs, and the final
\* errors list has an entry for the failed branch
C10_OneBranchFailureIsolated ==
  \A r \in SeqRuns :
    /\ (OnlyPriceRaised(r) /\ PastCombine(r)) =>
         /\ g[r].web = "ok" /\ g[r].combined = 1
         /\ (Returned(r) /\ result[r].success) =>
              /\ Get(result[r].data, "web_search_analysis") \in WebResults
              /\ Contains(result[r].errors, "Price comparison error")
    /\ (OnlyWebRaised(r) /\ PastCombine(r)) =>
         /\ g[r].price = "ok" /\ g[r].combined = 1
         /\ (Returned(r) /\ result[r].success) =>
              /\ Get(result[r].data, "price_comparison") \in PriceResults
              /\ Contains(result[r].errors, "Web search error")

C10_Witness ==
  \E r \in SeqRuns :
    /\ Returned(r) /\ OnlyPriceRaised(r) /\ result[r].success
    /\ Get(result[r].data, "web_search_analysis") \in WebResults
    /\ Contains(result[r].errors, "Price comparison error")

\* C11: when an enrichment branch fails after a successful scrape, the
\* combined record still carries that branch's sub-record, with a neutral
\* value (no offer groups, zero summary, no best deal; empty finding lists)
C11_FailedBranchLeavesNeutralSubRecord ==
  \A r \in SeqRuns :
    (Returned(r) /\ result[r].success /\ g[r].scrape = "ok") =>
      /\ g[r].price = "raised" =>
           /\ "price_comparison" \in DOMAIN result[r].data
           /\ result[r].data.price_comparison.price_comparison = << >>
           /\ result[r].data.price_comparison.price_stats = ZeroStats
           /\ result[r].data.price_comparison.best_deal = None
      /\ g[r].web = "raised" =>
           /\ "web_search_analysis" \in DOMAIN result[r].data
           /\ result[r].data.web_search_analysis.external_reviews = << >>
           /\ result[r].data.web_search_analysis.key_findings = << >>

\* C12: when the summarization call raises, the run records an error,
\* returns an empty string as analysis and still returns the structured
\* data, and writes neither the analysis entry nor the data entry
C12_SummarizeFailureReturnsEmptyString ==
  \A r \in SeqRuns :
    (Returned(r) /\ result[r].success /\ g[r].llm = "raised") =>
      /\ Contains(result[r].errors, "Analysis error")
      /\ result[r].analysis # None
      /\ result[r].analysis.text = ""
      /\ result[r].data # None
      /\ g[r].calls.setAnalysis = 0

\* a cache operation of the run failed: the lookup, the data write or the
\* analysis write
LookupFailed(r) == g[r].found = "error" /\ IsUrlSupported(st[r].url)
DataWriteFailed(r) == g[r].save = "raised"
AnalysisWriteFailed(r) == g[r].llm = "text_cache_fails"

\* C13: when a cache operation fails the failure is appended to errors and
\* the run still completes with success=true, returning the data it has and
\* the analysis if one was produced
C13_CacheFailuresDegrade ==
  \A r \in SeqRuns :
    (Returned(r) /\ ~g[r].engine) =>
      /\ LookupFailed(r) =>
           /\ result[r].success
           /\ Contains(result[r].errors, "Cache check error")
           /\ g[r].scrape = "ok" => result[r].data # None
      /\ DataWriteFailed(r) =>
           /\ result[r].success
           /\ Contains(result[r].errors, "Cache save error")
           /\ result[r].data # None
      /\ AnalysisWriteFailed(r) =>
           /\ result[r].success
           /\ Contains(result[r].errors, "Analysis error")
           /\ result[r].data # None
           /\ TruthyStr(result[r].analysis)

C13_Witness ==
  \E r \in SeqRuns :
    /\ Returned(r) /\ LookupFailed(r) /\ DataWriteFailed(r)
    /\ AnalysisWriteFailed(r)
    /\ result[r].success /\ result[r].data # None
    /\ TruthyStr(result[r].analysis)

\* the run's own summarization call produced the analysis text
AnalysisGenerated(r) == g[r].llm \in { "empty", "text", "text_cache_fails" }

\* C14: a cached analysis string is returned only if the same lookup found
\* a complete data entry; an analysis entry whose data entry is absent or
\* partial is never loaded into the run nor returned
C14_OrphanAnalysisNeverServed ==
  \A r \in SeqRuns :
    /\ (g[r].found \in { "absent", "partial", "error" }
        /\ pc[r] \in { "scrape_amazon", "enrich", "save_to_cache", "analyze_with_llm" }) =>
         st[r].analysis = None
    /\ (Returned(r) /\ result[r].success /\ result[r].analysis # None
        /\ ~AnalysisGenerated(r)) =>
         /\ g[r].found = "full"
         /\ result[r].analysis = g[r].seenAnalysis

C14_Witness ==
  \E r \in SeqRuns :
    /\ Returned(r) /\ result[r].success
    /\ g[r].found \in { "absent", "partial" }
    /\ TruthyStr(g[r].seenAnalysis)
    /\ g[r].llm = "raised"
    /\ result[r].analysis = None

\* C15: a run writes the analysis entry only if it found the data entry
\* complete in the cache or wrote the data entry successfully before
C15_AnalysisWrittenOnlyWithData ==
  \A r \in SeqRuns :
    g[r].llm = "text" => (g[r].found \in { "data", "full" } \/ g[r].save = "ok")

\* both concurrent runs found the item uncached and have returned
BothFetchedAndReturned ==
  \A r \in ConcRuns : Returned(r) /\ g[r].found = "absent"

\* the runs whose data write succeeded
Writers == { r \in ConcRuns : g[r].save = "ok" }

\* C16: for every interleaving of two concurrent runs for the same uncached
\* item, each run returns success with the record built from its own scrape
\* (complete when both its branches succeeded), and once both have finished
\* the data entry is the whole record written by one of them, never a mixture
C16_ConcurrentRunsWholeEntry ==
  BothFetchedAndReturned =>
    /\ \A r \in ConcRuns :
         (g[r].scrape = "ok" /\ ~g[r].engine) =>
           /\ result[r].success
           /\ result[r].data # None
           /\ result[r].data.content = g[r].scraped.content
           /\ result[r].data.title = g[r].scraped.title
           /\ (g[r].price = "ok" /\ g[r].web = "ok") => Enriched(result[r].data)
    /\ IF Writers = { }
       THEN cache[DataKey(ConcUrl.pid)] = None
       ELSE /\ \E r \in Writers :
                 cache[DataKey(ConcUrl.pid)] = JsonDumps(g[r].written)
            /\ \A r \in Writers :
                 result[r].success => result[r].data = g[r].written

C16_Witness ==
  /\ BothFetchedAndReturned
  /\ Writers = ConcRuns
  /\ \A r \in ConcRuns : result[r].success /\ Enriched(result[r].data)
  /\ result[1].data.content # result[2].data.content
  /\ cache[DataKey(ConcUrl.pid)] = JsonDumps(result[2].data)

\* the offers of all groups of the aggregation compare_prices returned
RECURSIVE GroupedOffers(_)
GroupedOffers(groups) ==
  IF groups = << >> THEN << >>
  ELSE Head(groups).products \o GroupedOffers(Tail(groups))

Aggregated == cmp.phase = "returned"
Surviving == GroupedOffers(cmp.result.price_comparison)
Priced == SelectSeq(Surviving, LAMBDA o : o.price > 0)
Range(seq) == { seq[i] : i \in 1..Len(seq) }

C18_SummaryCountAndBestDeal ==
  Aggregated =>
    LET stats == cmp.result.price_stats
    IN  /\ stats.total_results = Len(Priced)
        /\ (stats.total_results = 0) <=> (Priced = << >>)
        /\ stats.total_results = 0 =>
             /\ stats.min_price = 0 /\ stats.max_price = 0
             /\ stats.avg_price = Rat(0, 1) /\ stats.median_price = Rat(0, 1)
        /\ (cmp.result.best_deal # None) <=> (stats.total_results > 0)

C18_Witness ==
  /\ Aggregated
  /\ Surviving # << >>
  /\ Priced = << >>
  /\ cmp.result.price_stats.total_results = 0
  /\ cmp.result.best_deal = None

MaxPrice(offers) ==
  CHOOSE m \in { o.price : o \in Range(offers) } :
    \A o \in Range(offers) : o.price <= m

\* C19: whenever best_deal is present its savings is at least 0, and its
\* savings_percent is 0 when its price is the highest positive price
C19_SavingsNonNegative ==
  (Aggregated /\ cmp.result.best_deal # None) =>
    /\ cmp.result.best_deal.savings >= 0
    /\ cmp.result.best_deal.savings_percent >= 0
    /\ cmp.result.best_deal.price = MaxPrice(Priced) =>
         cmp.result.best_deal.savings_percent = 0

C19_Witness ==
  /\ Aggregated /\ cmp.result.best_deal # None
  /\ Len(Priced) >= 2
  /\ cmp.result.best_deal.price = MaxPrice(Priced)
  /\ cmp.result.best_deal.savings_percent = 0

\* the best deal reports the offer o
ReportsOffer(deal, o) ==
  /\ deal.platform = o.platform /\ deal.title = o.title
  /\ deal.price = o.price /\ deal.currency = o.currency
  /\ deal.url = o.url /\ deal.seller = o.seller /\ deal.rating = o.rating

\* C20: best_deal is the surviving priced offer with the lowest price and,
\* among those tied at the lowest price, the highest rating; its savings is
\* the highest positive price minus its own price
C20_BestDealIsCheapestBestRated ==
  (Aggregated /\ cmp.result.best_deal # None) =>
    /\ \E o \in Range(Priced) :
         /\ ReportsOffer(cmp.result.best_deal, o)
         /\ \A other \in Range(Priced) :
              \/ o.price < other.price
              \/ o.price = other.price /\ o.rating >= other.rating
    /\ cmp.result.best_deal.savings =
         MaxPrice(Priced) - cmp.result.best_deal.price

C20_Witness ==
  /\ Aggregated /\ cmp.result.best_deal # None
  /\ \E a, b \in Range(Priced) :
       a.price = b.price /\ a.rating < b.rating
       /\ cmp.result.best_deal.price = a.price
       /\ cmp.result.best_deal.rating = b.rating
  /\ cmp.result.best_deal.savings > 0

(***************************************************************************)
(* C21: when the shopping search reports an error, compare_prices returns  *)
(* an aggregation with no offer group, every field of the price summary    *)
(* zero (its count included), no best deal and a total count of 0.         *)
(***************************************************************************)
C21_SearchErrorGivesEmptyAggregation ==
  (cmp.phase = "returned" /\ "error" \in DOMAIN cmp.raw_results) =>
     /\ cmp.result # None
     /\ cmp.result.price_comparison = << >>
     /\ cmp.result.price_stats.min_price = 0
     /\ cmp.result.price_stats.max_price = 0
     /\ cmp.result.price_stats.avg_price = Rat(0, 1)
     /\ cmp.result.price_stats.median_price = Rat(0, 1)
     /\ cmp.result.price_stats.total_results = 0
     /\ cmp.result.best_deal = None
     /\ cmp.result.total_results = 0

\* an error response that came with results has been aggregated
C21_Witness ==
  /\ cmp.phase = "returned"
  /\ "error" \in DOMAIN cmp.raw_results
  /\ cmp.raw_results.shopping # << >>
  /\ cmp.result.total_results = 0

(***************************************************************************)
(* Properties of analyze_product.                                          *)
(***************************************************************************)
\* the call has returned its bundle
Analyzed == ws.phase = "returned"

\* the filter of the category called the generative layer and got a text
Answered(category) ==
  /\ category \in ws.finished
  /\ category \in ws.invoked
  /\ ~ws.responses[category].raised

(***************************************************************************)
(* C22: when every category's finding list is empty, the bundle holds the  *)
(* neutral sentiment (unknown, low confidence) and no red flag, and no     *)
(* call to the generative layer was made.                                  *)
(***************************************************************************)
C22_EmptyFindingsGiveNeutralBundle ==
  (ws.searched = CategorySet /\ \A c \in CategorySet : ws.found[c] = << >>) =>
     /\ ws.invoked = { }
     /\ Analyzed =>
           /\ ws.result # None
           /\ ws.result.overall_sentiment.sentiment = "unknown"
           /\ ws.result.overall_sentiment.confidence = "low"
           /\ ws.result.red_flags = << >>

\* an analysis whose searches found nothing has returned
C22_Witness ==
  /\ Analyzed
  /\ \A c \in CategorySet : ws.found[c] = << >>
  /\ ws.finished = Operations

(***************************************************************************)
(* C23: a filter response that is the none signal alone, in any letter     *)
(* case, for a non-empty list gives an empty filtered list.                *)
(***************************************************************************)
NoneSignal(text) ==
  /\ Len(text) = 1
  /\ ~text[1].number
  /\ text[1].word \in { "NONE", "None", "none" }

C23_NoneSignalEmptiesCategory ==
  \A c \in FilteredCategories :
    (Answered(c) /\ ws.found[c] # << >> /\ NoneSignal(ws.responses[c].text)) =>
       /\ ws.llm_results[c] = << >>
       /\ Analyzed => ws.result[c] = << >>

\* a lower-case none signal has emptied a category of several findings
C23_Witness ==
  /\ Analyzed
  /\ \E c \in FilteredCategories :
        /\ Answered(c)
        /\ Len(ws.found[c]) > 1
        /\ ws.responses[c].text = << Word("none") >>
        /\ ws.result[c] = << >>

(***************************************************************************)
(* C24: when the generative call of a category filter raises, the filter   *)
(* returns the category's findings unchanged, in the same order.           *)
(***************************************************************************)
C24_FilterFailsOpen ==
  \A c \in FilteredCategories :
    (c \in ws.failed) =>
       /\ ws.llm_results[c] = ws.found[c]
       /\ Analyzed => ws.result[c] = ws.found[c]

\* a filter call raised for a category of several findings
C24_Witness ==
  /\ Analyzed
  /\ \E c \in FilteredCategories :
        /\ c \in ws.failed
        /\ Len(ws.found[c]) > 1
        /\ ws.result[c] = ws.found[c]

(***************************************************************************)
(* C25: when a generative filtering or synthesis call fails during the web *)
(* search branch, the errors list run returns holds an entry for it.       *)
(***************************************************************************)
C25_GenerativeFailureRecorded ==
  \A r \in SeqRuns :
    (Returned(r) /\ result[r].success /\ g[r].web = "ok" /\ ws.failed # { }) =>
       Contains(result[r].errors, "Web search error")

(***************************************************************************)
(* C26: for every title t, _is_same_product(t, t) is true at the threshold *)
(* 0.65, also for a title no attribute can be extracted from.              *)
(***************************************************************************)
C26_IdenticalTitlesMatch ==
  (sim.phase = "returned" /\ sim.original_title = sim.result_title
     /\ sim.threshold = Threshold) => sim.same

(***************************************************************************)
(* C27: on the fetch path the steps run in the order scrape, then the two  *)
(* enrichment branches, then combine exactly once and only after both      *)
(* branches finished, then the write of the data entry, then the summary:  *)
(* the data write step comes before the summary is invoked.                *)
(***************************************************************************)
C27_FetchPathOrder ==
  \A r \in SeqRuns :
    /\ g[r].combined <= 1
    /\ (g[r].price # "none" \/ g[r].web # "none") => g[r].scrape # "none"
    /\ g[r].combined = 1 => (g[r].price # "none" /\ g[r].web # "none")
    /\ g[r].save # "none" => g[r].combined = 1
    /\ (g[r].route = "fetch" /\ g[r].llm # "none") => g[r].save # "none"
    /\ (Returned(r) /\ result[r].success /\ g[r].route = "fetch") =>
          (g[r].combined = 1 /\ g[r].llm # "none")

C27_Witness ==
  \E r \in SeqRuns :
    /\ Returned(r) /\ result[r].success /\ g[r].route = "fetch"
    /\ g[r].scrape = "ok" /\ g[r].price = "ok" /\ g[r].web = "ok"
    /\ g[r].combined = 1 /\ g[r].save = "ok" /\ g[r].llm = "text"

(***************************************************************************)
(* C28: a filter response without the none signal, for a non-empty list,   *)
(* gives exactly the findings whose 1-based position is among the integers *)
(* of the response, in their original order: integers out of range are     *)
(* ignored and a position named twice is kept once.                        *)
(***************************************************************************)
\* the positions of the list that the response names
NamedPositions(results, text) ==
  { i \in 1..Len(results) :
      \E j \in 1..Len(text) : text[j].number /\ text[j].value = i }

\* the k-th smallest of a set of positions
NthPosition(positions, k) ==
  CHOOSE p \in positions : Cardinality({ q \in positions : q <= p }) = k

C28_FilterKeepsNamedPositions ==
  \A c \in FilteredCategories :
    (Answered(c) /\ ws.found[c] # << >> /\ ~ContainsNone(ws.responses[c].text)) =>
       LET positions == NamedPositions(ws.found[c], ws.responses[c].text)
           kept == ws.llm_results[c]
       IN  /\ Len(kept) = Cardinality(positions)
           /\ \A k \in 1..Len(kept) :
                 kept[k] = ws.found[c][NthPosition(positions, k)]
           /\ \A k1, k2 \in 1..Len(kept) : kept[k1] = kept[k2] => k1 = k2
           /\ Analyzed => ws.result[c] = kept

\* the response "2, 1, 2" has kept the first two of at least three findings,
\* and a response naming 0, 1 and a position past the end has kept the first
C28_Witness ==
  /\ Analyzed
  /\ \E c \in FilteredCategories :
        /\ Answered(c)
        /\ Len(ws.found[c]) > 2
        /\ ws.responses[c].text = << Number(2), Number(1), Number(2) >>
        /\ ws.result[c] = << ws.found[c][1], ws.found[c][2] >>
  /\ \E c \in FilteredCategories :
        /\ Answered(c)
        /\ Len(ws.found[c]) > 1
        /\ \E j \in 1..Len(ws.responses[c].text) :
              /\ ws.responses[c].text[j].number
              /\ ws.responses[c].text[j].value > Len(ws.found[c])
        /\ ws.result[c] = << ws.found[c][1] >>

(***************************************************************************)
(* C29: the three synthesis operations all receive the same pool, the      *)
(* findings of the five categories after relevance filtering, cut to its   *)
(* first 20 items in discovery order: a finding that a category filter     *)
(* removed is in no synthesis input.                                       *)
(***************************************************************************)
\* the findings of the five categories as the bundle returns them
FilteredPool == AllResults(ws.result)

C29_SynthesisReceivesFilteredPool ==
  Analyzed =>
    \A o \in SynthesisOperations \cap ws.invoked :
      ws.contexts[o] = Truncate(FilteredPool, 20)

(***************************************************************************)
(* C30: every pooled finding whose URL is on youtube.com or youtu.be is    *)
(* among the video mentions of the bundle, and the video mentions hold     *)
(* only such findings.                                                     *)
(***************************************************************************)
IsVideoUrl(url) == UrlMentions(url, "youtube.com") \/ UrlMentions(url, "youtu.be")

C30_VideoMentionsArePooledVideos ==
  Analyzed =>
    LET videos == ws.result.video_reviews
    IN  /\ \A i \in 1..Len(ws.all_results) :
              IsVideoUrl(ws.all_results[i].link) =>
                \E k \in 1..Len(videos) : videos[k].title = ws.all_results[i].title
        /\ \A k \in 1..Len(videos) :
              \E i \in 1..Len(ws.all_results) :
                /\ IsVideoUrl(ws.all_results[i].link)
                /\ videos[k].title = ws.all_results[i].title

(***************************************************************************)
(* C31: whatever the order in which the five searches and the seven        *)
(* filter and synthesis operations finish, each output is held under its   *)
(* own operation's field: a category's findings are those of its own       *)
(* search, a filtered list is its own filter's answer on its own           *)
(* category, a synthesis field is an output of its own operation, and the  *)
(* bundle is returned only when all of them have finished.                 *)
(***************************************************************************)
C31_OutputsUnderOwnField ==
  /\ \A c \in ws.searched :
        ws.found[c] = SearchAndProcess(ws.world[c], SearchType(c), ws.source_platform)
  /\ \A c \in FilteredCategories \cap ws.finished :
        ws.llm_results[c] = FilterIrrelevantContent(ws.found[c], ws.responses[c])
  /\ "key_findings" \in ws.finished =>
        ws.llm_results.key_findings \in
          { SummarizeWithLlm(ws.all_results, o) : o \in KeyFindingsOutcomes }
  /\ "red_flags" \in ws.finished =>
        ws.llm_results.red_flags \in
          { DetectRedFlags(ws.all_results, o) : o \in RedFlagsOutcomes }
  /\ "overall_sentiment" \in ws.finished =>
        ws.llm_results.overall_sentiment \in
          { AnalyzeSentiment(ws.all_results, o) : o \in SentimentOutcomes }
  /\ ws.phase \in { "analyzing", "returned" } =>
        (ws.searched = CategorySet /\ ws.all_results = AllResults(ws.found))
  /\ Analyzed =>
        /\ ws.finished = Operations
        /\ \A c \in FilteredCategories : ws.result[c] = ws.llm_results[c]
        /\ ws.result.issue_discussions = ws.found.issue_discussions
        /\ \A o \in SynthesisOperations : ws.result[o] = ws.llm_results[o]

\* a bundle has been returned in which two categories with different
\* findings were filtered with different answers
C31_Witness ==
  /\ Analyzed
  /\ \E c1, c2 \in FilteredCategories :
        /\ ws.found[c1] # << >> /\ ws.found[c2] # << >>
        /\ ws.responses[c1] = Responded(<< Word("none") >>)
        /\ ws.responses[c2] = Raised
        /\ ws.result[c1] = << >> /\ ws.result[c2] = ws.found[c2]
  /\ ws.result.key_findings = << "finding-1", "finding-2" >>

(***************************************************************************)
(* C32: every offer that survives the own-platform and same-product        *)
(* filters is in exactly one offer group, the one keyed by its platform,   *)
(* in discovery order; an offer with price 0 stays in its group but is     *)
(* counted neither in the price summary nor as the best deal, and the      *)
(* total count is the sum of the group sizes.                              *)
(***************************************************************************)
\* the offers of the search that pass the filters, in discovery order
Survivors ==
  LET shopping_results == cmp.raw_results.shopping
      normalized == [i \in 1..Len(shopping_results) |->
                       NormalizeResult(shopping_results[i])]
  IN  SelectSeq(normalized,
                LAMBDA n : /\ n # None
                           /\ n.platform # cmp.source_platform
                           /\ IsSameProduct(cmp.product_name, n.title, Threshold))

C32_SurvivorsGroupedByPlatform ==
  (Aggregated /\ "error" \notin DOMAIN cmp.raw_results) =>
    LET groups == cmp.result.price_comparison
    IN  /\ \A i, j \in 1..Len(groups) :
              groups[i].platform = groups[j].platform => i = j
        /\ \A o \in Range(Survivors) :
              \E i \in 1..Len(groups) : groups[i].platform = o.platform
        /\ \A i \in 1..Len(groups) :
              /\ groups[i].products # << >>
              /\ groups[i].products =
                    SelectSeq(Survivors, LAMBDA o : o.platform = groups[i].platform)
        /\ cmp.result.total_results = Len(GroupedOffers(groups))
        /\ cmp.result.total_results = Len(Survivors)
        /\ cmp.result.price_stats.total_results =
              Len(SelectSeq(Survivors, LAMBDA o : o.price > 0))
        /\ cmp.result.best_deal # None => cmp.result.best_deal.price > 0

\* two groups, one of them holding an offer without a price next to a
\* priced one
C32_Witness ==
  /\ Aggregated /\ "error" \notin DOMAIN cmp.raw_results
  /\ Len(cmp.result.price_comparison) >= 2
  /\ \E grp \in Range(cmp.result.price_comparison) :
        /\ Len(grp.products) >= 2
        /\ \E a, b \in Range(grp.products) : a.price = 0 /\ b.price > 0
  /\ cmp.result.total_results > cmp.result.price_stats.total_results
  /\ cmp.result.best_deal # None

(***************************************************************************)
(* C33: the attribute agreement ratio of two titles is the number of the   *)
(* attributes brand, storage, RAM, color and model that either title has   *)
(* and that match exactly, divided by the number of those attributes that  *)
(* either title has (the color takes part), and the final score is 0.7     *)
(* times this ratio plus 0.3 times the sequence similarity.                *)
(***************************************************************************)
ClaimedAttributes == { "brand", "storage", "ram", "color", "model" }

\* the claimed attributes either title has / those that match exactly
PresentIn(title1, title2) ==
  { k \in ClaimedAttributes :
      \/ k \in DOMAIN ExtractProductAttributes(title1)
      \/ k \in DOMAIN ExtractProductAttributes(title2) }

MatchingIn(title1, title2) ==
  { k \in ClaimedAttributes :
      /\ k \in DOMAIN ExtractProductAttributes(title1)
      /\ k \in DOMAIN ExtractProductAttributes(title2)
      /\ ExtractProductAttributes(title1)[k] = ExtractProductAttributes(title2)[k] }

C33_RatioCountsFiveAttributes ==
  (sim.phase = "returned"
   /\ PresentIn(sim.original_title, sim.result_title) # { }) =>
     LET n == Cardinality(PresentIn(sim.original_title, sim.result_title))
         m == Cardinality(MatchingIn(sim.original_title, sim.result_title))
         seq == SequenceSimilarity(sim.original_title, sim.result_title)
         \* attribute_matches / total_attributes, 0 when nothing was counted
         ratio == IF sim.score.total_attributes = 0
                  THEN [num |-> 0, den |-> 1]
                  ELSE [num |-> sim.score.attribute_matches,
                        den |-> sim.score.total_attributes]
     IN  /\ ratio.num * n = m * ratio.den
         /\ sim.score.num * (100 * n * seq.total) =
               sim.score.den * (70 * m * seq.total + 30 * seq.matched * n)

(***************************************************************************)
(* C34: when neither title yields an attribute, the final score is the     *)
(* sequence similarity of the normalized titles, and _is_same_product is   *)
(* true exactly when that sequence similarity is at least the threshold.   *)
(***************************************************************************)
C34_NoAttributesGivesSequenceSimilarity ==
  (sim.phase = "returned"
   /\ DOMAIN ExtractProductAttributes(sim.original_title) = { }
   /\ DOMAIN ExtractProductAttributes(sim.result_title) = { }) =>
     LET seq == SequenceSimilarity(sim.original_title, sim.result_title)
     IN  /\ sim.score.num * seq.total = sim.score.den * seq.matched
         /\ sim.same <=> (100 * seq.matched >= sim.threshold * seq.total)

(***************************************************************************)
(* C35: the competitor price list has at most 5 entries, is sorted by      *)
(* ascending numeric price and holds the lowest-priced offers of all       *)
(* groups: no offer left out has a lower price than an offer in the list,  *)
(* and an offer without a price is listed only when fewer than 5 offers    *)
(* have a price.                                                           *)
(***************************************************************************)
\* the offers of all groups
CombinedOffers == Range(GroupedOffers(cb.price_comparison))

\* the offer an entry of the list was made from
OfferOf(entry) == CHOOSE o \in CombinedOffers : o.url = entry.url

\* offer a is priced lower than offer b; an offer without a price is last
Cheaper(a, b) == a.price > 0 /\ (b.price = 0 \/ a.price < b.price)

C35_CompetitorPricesAreLowest ==
  cb.phase = "returned" =>
    LET listed == cb.competitor_prices
        listedOffers == { OfferOf(listed[k]) : k \in 1..Len(listed) }
    IN  /\ Len(listed) <= 5
        /\ Len(listed) = Cardinality(listedOffers)
        /\ \A j, k \in 1..Len(listed) :
              j < k => ~Cheaper(OfferOf(listed[k]), OfferOf(listed[j]))
        /\ \A o \in CombinedOffers \ listedOffers :
              \A e \in listedOffers : ~Cheaper(o, e)
        /\ (\E e \in listedOffers : e.price = 0) =>
              Cardinality({ o \in CombinedOffers : o.price > 0 }) < 5

(***************************************************************************)
(* C36: each failure caught during a run gives exactly one entry of the    *)
(* errors list run returns: the list has as many entries as there were     *)
(* failures, and the later steps never repeat an entry recorded earlier.   *)
(***************************************************************************)
\* the failures the nodes of run r caught
Failures(r) ==
  { "Cache check error" : x \in { 1 } \cap { IF g[r].found = "error" THEN 1 ELSE 0 } }
  \cup { "Scraping error" : x \in { 1 } \cap { IF g[r].scrape = "raised" THEN 1 ELSE 0 } }
  \cup { "Price comparison error" :
            x \in { 1 } \cap { IF g[r].price = "raised" THEN 1 ELSE 0 } }
  \cup { "Web search error" : x \in { 1 } \cap { IF g[r].web = "raised" THEN 1 ELSE 0 } }
  \cup { "Cache save error" : x \in { 1 } \cap { IF g[r].save = "raised" THEN 1 ELSE 0 } }
  \cup { "Analysis error" :
            x \in { 1 } \cap { IF g[r].llm \in { "raised", "skipped", "text_cache_fails" }
                               THEN 1 ELSE 0 } }

C36_OneEntryPerFailure ==
  \A r \in SeqRuns :
    (Returned(r) /\ result[r].success) =>
       /\ Len(result[r].errors) = Cardinality(Failures(r))
       /\ \A e \in Failures(r) : Contains(result[r].errors, e)
       /\ \A j, k \in 1..Len(result[r].errors) :
             result[r].errors[j] = result[r].errors[k] => j = k

(***************************************************************************)
(* C37: every data entry the save step writes passes the completeness test *)
(* of the cache lookup of a later run (it has the price-side and the       *)
(* search-side sub-record), also when an enrichment branch failed or the   *)
(* scraped item had an empty title.                                        *)
(***************************************************************************)
C37_StoredEntriesAreComplete ==
  \A p \in ProductIds :
    RedisGet(cache, DataKey(p)) # None =>
      CacheComplete(JsonLoads(RedisGet(cache, DataKey(p))))

(***************************************************************************)
(* C38: whenever the store holds both the data entry and the analysis      *)
(* entry of a product id, the analysis was generated from the record the   *)
(* data entry holds, under every interleaving of concurrent runs for that  *)
(* id.                                                                     *)
(***************************************************************************)
C38_AnalysisMatchesStoredData ==
  \A p \in ProductIds :
    (RedisGet(cache, DataKey(p)) # None /\ RedisGet(cache, AnalysisKey(p)) # None) =>
       RedisGet(cache, AnalysisKey(p)).of = JsonLoads(RedisGet(cache, DataKey(p)))

(***************************************************************************)
(* C39: when every call to a collaborator returns or raises, every run     *)
(* that was started reaches the end of the graph and returns a result; a   *)
(* failed branch does not leave the run waiting at the join.               *)
(***************************************************************************)
C39_EveryRunReturns ==
  \A r \in SeqRuns : (pc[r] = "check_cache") ~> Returned(r)

\* a run whose two branches both failed has gone through the join and
\* returned
C39_Witness ==
  \E r \in SeqRuns :
    /\ Returned(r) /\ result[r].success
    /\ g[r].price = "raised" /\ g[r].web = "raised"
    /\ g[r].combined = 1

(***************************************************************************)
(* C40: an item was cached without an enrichment sub-record (as a run      *)
(* without that service stores it) and the service is set.  As stated: a   *)
(* later call for the item, before the entry expires, is served the cached *)
(* record and runs no scrape and no enrichment.                            *)
(***************************************************************************)
\* the second of two successive calls for the same supported URL has looked
\* up the store, which holds the record the first call stored; that record
\* lacks an enrichment sub-record and no entry expired meanwhile
SecondFindsUnenriched(r) ==
  /\ prev # NoPrev
  /\ IsUrlSupported(st[r].url)
  /\ prev.url = st[r].url
  /\ ~expired
  /\ prev.stored /\ ~Enriched(prev.data)
  /\ g[r].found \notin { "unchecked", "error" }

C40_CachedRecordServedUntilExpiry ==
  \A r \in SeqRuns :
    (SecondFindsUnenriched(r) /\ Returned(r) /\ result[r].success) =>
      /\ g[r].calls.scrape = 0
      /\ g[r].calls.shopping = 0 /\ g[r].calls.web = 0
      /\ result[r].data = prev.data

\* C40 amended: with both services set, a cached record that lacks an
\* enrichment sub-record is judged partial by the next call within the TTL:
\* the call takes the fetch route, scrapes again, and a call that succeeds
\* has run both enrichment branches and the combine step again
C40_UnenrichedRecordIsFetchedAgain ==
  \A r \in SeqRuns :
    SecondFindsUnenriched(r) =>
      /\ g[r].found = "partial"
      /\ g[r].route = "fetch"
      /\ PastScrape(r) => g[r].calls.scrape = 1
      /\ (Returned(r) /\ result[r].success) =>
            /\ g[r].price # "none" /\ g[r].web # "none"
            /\ g[r].combined = 1

C40_Witness ==
  \E r \in SeqRuns :
    /\ SecondFindsUnenriched(r) /\ Returned(r) /\ result[r].success
    /\ g[r].found = "partial" /\ g[r].route = "fetch"
    /\ g[r].calls.scrape = 1 /\ g[r].calls.shopping = 1 /\ g[r].calls.web = 1
    /\ g[r].combined = 1

====
